---- MODULE Spec2Model ----
(***************************************************************************)
(* Model of the DAG workflow runner (src/unnamed/part_000, imported by the  *)
(* HTTP route as "@/lib/runner"): topoSort, substituteQuery, resolveInput / *)
(* resolveRef, jqEval and the retry / timeout loop of executeWorkflow.      *)
(*                                                                          *)
(* JavaScript strings are modelled as sequences of atoms.  An atom is one   *)
(* special character ("\"", "\\", ".", "[", "]", ",", ":", "{", "}", "-",   *)
(* "|", " ", "$", "&", "'", the grave accent, one character outside the     *)
(* basic plane), the seven-character placeholder "{query}", or a word of    *)
(* characters that contains none of the special ones ("nodes", "n1").       *)
(* JSON-like values are tagged records.                                     *)
(*                                                                          *)
(* The last section models the WorkflowRunner component                     *)
(* (src/components/HowItWorks.tsx): its state hooks, its selectors and the  *)
(* asynchronous steps of runWorkflow.                                       *)
(***************************************************************************)
EXTENDS Integers, Sequences, FiniteSets, TLC

\* ---------------------------------------------------------------- bounds
MaxNodes == 3       \* nodes of a workflow handed to topoSort
RunNodes == 2       \* nodes of a workflow that is executed
MaxAttempts == 3    \* largest retry.maxAttempts of a node
MaxDur == 2         \* largest measured duration of a handler call, in ms

\* ---------------------------------------------------------------- values
Null == [t |-> "null"]
Undef == [t |-> "undef"]
Num(n) == [t |-> "num", n |-> n]
Str(s) == [t |-> "str", s |-> s]
Bool(b) == [t |-> "bool", b |-> b]
Arr(a) == [t |-> "arr", a |-> a]
Obj(o) == [t |-> "obj", o |-> o]
KV(k, v) == [k |-> k, v |-> v]

IsObj(v) == v.t = "obj"
IsArr(v) == v.t = "arr"
IsStr(v) == v.t = "str"

\* ---------------------------------------------------------------- helpers
Range(s) == {s[i] : i \in 1..Len(s)}

Contains(s, x) == \E i \in 1..Len(s) : s[i] = x

\* ---------------------------------------------------------------- nodes
\* WorkflowNode (src/lib/types.ts).  retry = NoRetry models an absent retry
\* policy; timeoutMs = 0 models an absent (or zero, equally falsy) timeout.
NoRetry == [present |-> FALSE, maxAttempts |-> 0, backoffMs |-> 0]
Retry(m, b) == [present |-> TRUE, maxAttempts |-> m, backoffMs |-> b]

Node(id, act, input, deps, timeout, retry) ==
  [id |-> id, actionRef |-> act, input |-> input, dependsOn |-> deps,
   timeoutMs |-> timeout, retry |-> retry]

\* ---------------------------------------------------------------- topoSort
\* The numbers that occur in templates, outputs, index tokens and node ids.
Nums == {0, 1, 2, 5, 10, 20, 200, 404}
NumWords == {ToString(n) : n \in Nums}
NumOfWord(a) == CHOOSE n \in Nums : ToString(n) = a

\* indeg is a JavaScript object: a value per key, and the keys in the order
\* Object.entries lists them, which is the integer-like keys in ascending
\* order and then the other keys in insertion order (node ids are taken not
\* to be names of Object.prototype's members).
IntegerLike(id) == id \in NumWords
InsertKey(keys, id) ==
  IF IntegerLike(id)
  THEN LET below == SelectSeq(keys, LAMBDA a : IntegerLike(a) /\ NumOfWord(a) < NumOfWord(id))
       IN below \o <<id>> \o SubSeq(keys, Len(below) + 1, Len(keys))
  ELSE Append(keys, id)
IndegGet(m, id) == m.val[id]
IndegHas(m, id) == Contains(m.keys, id)
IndegEnsure(m, id) ==
  IF IndegHas(m, id) THEN m
  ELSE [keys |-> InsertKey(m.keys, id), val |-> (id :> 0) @@ m.val]
IndegSet(m, id, n) == [keys |-> m.keys, val |-> [m.val EXCEPT ![id] = n]]

EmptyIndeg == [keys |-> <<>>, val |-> <<>>]

\* for (const n of nodes) indeg[n.id] ??= 0
RECURSIVE IndegInit(_, _)
IndegInit(nodes, m) ==
  IF nodes = <<>> THEN m
  ELSE IndegInit(Tail(nodes), IndegEnsure(m, Head(nodes).id))

\* for (const dep of n.dependsOn ?? []) { indeg[n.id]++; indeg[dep] ??= 0 }
RECURSIVE IndegCountDeps(_, _, _)
IndegCountDeps(id, deps, m) ==
  IF deps = <<>> THEN m
  ELSE IndegCountDeps(id, Tail(deps),
         IndegEnsure(IndegSet(m, id, IndegGet(m, id) + 1), Head(deps)))

RECURSIVE IndegCount(_, _)
IndegCount(nodes, m) ==
  IF nodes = <<>> THEN m
  ELSE IndegCount(Tail(nodes),
         IndegCountDeps(Head(nodes).id, Head(nodes).dependsOn, m))

\* Object.entries(indeg).filter(pred on the degree).map(([id]) => id)
RECURSIVE KeysWhere(_, _, _)
KeysWhere(keys, m, positive) ==
  IF keys = <<>> THEN <<>>
  ELSE LET rest == KeysWhere(Tail(keys), m, positive)
           d == IndegGet(m, Head(keys))
       IN IF (positive /\ d > 0) \/ (~positive /\ d = 0)
          THEN <<Head(keys)>> \o rest ELSE rest

\* The inner loop of the while: every node listing cur loses one in-degree
\* and is queued when it reaches zero.  st = [indeg, queue].
DecrementStep(n, cur, st) ==
  IF Contains(n.dependsOn, cur)
  THEN LET d == IndegGet(st.indeg, n.id) - 1
       IN [indeg |-> IndegSet(st.indeg, n.id, d),
           queue |-> IF d = 0 THEN Append(st.queue, n.id) ELSE st.queue]
  ELSE st

RECURSIVE Decrement(_, _, _)
Decrement(nodes, cur, st) ==
  IF nodes = <<>> THEN st
  ELSE Decrement(Tail(nodes), cur, DecrementStep(Head(nodes), cur, st))

RECURSIVE Drain(_, _, _, _)
Drain(nodes, indeg, queue, order) ==
  IF queue = <<>> THEN [indeg |-> indeg, order |-> order]
  ELSE LET cur == Head(queue)
           st == Decrement(nodes, cur, [indeg |-> indeg, queue |-> Tail(queue)])
       IN Drain(nodes, st.indeg, st.queue, Append(order, cur))

\* mutant: the queue is seeded from the declared nodes, not from indeg's entries
topoSortDeclaredSeeds(nodes) ==
  LET indeg == IndegCount(nodes, IndegInit(nodes, EmptyIndeg))
      queue == SelectSeq(indeg.keys,
                 LAMBDA id : IndegGet(indeg, id) = 0
                             /\ \E i \in 1..Len(nodes) : nodes[i].id = id)
      fin == Drain(nodes, indeg, queue, <<>>)
  IN [order |-> fin.order, cycles |-> KeysWhere(fin.indeg.keys, fin.indeg, TRUE)]

\* mutant: the cycle set filtered with deg > 1 instead of deg > 0
topoSortOffByOne(nodes) ==
  LET indeg == IndegCount(nodes, IndegInit(nodes, EmptyIndeg))
      queue == KeysWhere(indeg.keys, indeg, FALSE)
      fin == Drain(nodes, indeg, queue, <<>>)
  IN [order |-> fin.order,
      cycles |-> SelectSeq(fin.indeg.keys, LAMBDA id : IndegGet(fin.indeg, id) > 1)]

\* mutant: the nodes are ordered as they are declared
topoSortDeclarationOrder(nodes) ==
  LET indeg == IndegCount(nodes, IndegInit(nodes, EmptyIndeg))
      queue == KeysWhere(indeg.keys, indeg, FALSE)
      fin == Drain(nodes, indeg, queue, <<>>)
  IN [order |-> [i \in 1..Len(nodes) |-> nodes[i].id],
      cycles |-> KeysWhere(fin.indeg.keys, fin.indeg, TRUE)]

topoSort(nodes) ==
  LET indeg == IndegCount(nodes, IndegInit(nodes, EmptyIndeg))
      queue == KeysWhere(indeg.keys, indeg, FALSE)
      fin == Drain(nodes, indeg, queue, <<>>)
  IN [order |-> fin.order, cycles |-> KeysWhere(fin.indeg.keys, fin.indeg, TRUE)]

\* ---------------------------------------------------------------- JSON text
Quote == "\""
Backslash == "\\"
QueryToken == "{query}"

RECURSIVE Flatten(_)
Flatten(ss) == IF ss = <<>> THEN <<>> ELSE Head(ss) \o Flatten(Tail(ss))

RECURSIVE Join(_, _)
Join(ss, sep) ==
  IF ss = <<>> THEN <<>>
  ELSE IF Len(ss) = 1 THEN ss[1]
  ELSE ss[1] \o <<sep>> \o Join(Tail(ss), sep)

\* JSON.stringify of a string: quoted, with quote and backslash escaped.
EscapeAtom(a) ==
  IF a = Quote \/ a = Backslash THEN <<Backslash, a>> ELSE <<a>>
StringifyString(s) ==
  <<Quote>> \o Flatten([i \in 1..Len(s) |-> EscapeAtom(s[i])]) \o <<Quote>>

RECURSIVE Stringify(_)
Stringify(v) ==
  CASE v.t = "null" -> <<"null">>
    [] v.t = "bool" -> <<IF v.b THEN "true" ELSE "false">>
    [] v.t = "num" -> <<ToString(v.n)>>
    [] v.t = "str" -> StringifyString(v.s)
    [] v.t = "arr" ->
         <<"[">> \o Join([i \in 1..Len(v.a) |-> Stringify(v.a[i])], ",") \o <<"]">>
    [] v.t = "obj" ->
         <<"{">> \o Join([i \in 1..Len(v.o) |->
                     StringifyString(v.o[i].k) \o <<":">> \o Stringify(v.o[i].v)], ",")
                 \o <<"}">>

\* The text String.prototype.replace puts in place of one match when its
\* second argument is a string: in it "$$" stands for "$", "$&" for the
\* matched text, "$" with a grave accent and "$'" for the text before and
\* after the match.  The pattern has no capture group, so any other "$"
\* stands for itself.
Dollar == "$"
Grave == "U+0060"     \* the grave accent
RECURSIVE GetSubstitution(_, _, _, _)
GetSubstitution(matched, before, after, replacement) ==
  IF replacement = <<>> THEN <<>>
  ELSE IF /\ replacement[1] = Dollar /\ Len(replacement) >= 2
          /\ replacement[2] \in {Dollar, "&", Grave, "'"}
       THEN (CASE replacement[2] = Dollar -> <<Dollar>>
               [] replacement[2] = "&" -> matched
               [] replacement[2] = Grave -> before
               [] replacement[2] = "'" -> after)
              \o GetSubstitution(matched, before, after,
                                 SubSeq(replacement, 3, Len(replacement)))
       ELSE <<replacement[1]>>
              \o GetSubstitution(matched, before, after, Tail(replacement))

\* json.replace(/\{query\}/g, query): every placeholder atom becomes the
\* substitution that the query, taken as a replacement string, stands for.
ReplaceQuery(txt, query) ==
  Flatten([i \in 1..Len(txt) |->
             IF txt[i] = QueryToken
             THEN GetSubstitution(<<QueryToken>>, SubSeq(txt, 1, i - 1),
                                  SubSeq(txt, i + 1, Len(txt)), query)
             ELSE <<txt[i]>>])

\* JSON.parse, as a recursive-descent parser over the atoms.  A result is
\* [ok, v, i]: whether a value was read, the value, and the next position.
ParseFail == [ok |-> FALSE, v |-> Null, i |-> 0]
ParseOk(v, i) == [ok |-> TRUE, v |-> v, i |-> i]

\* obj[key] = value while parsing: a repeated key keeps its place, last wins.
RECURSIVE PutMember(_, _, _)
PutMember(o, k, v) ==
  IF o = <<>> THEN <<KV(k, v)>>
  ELSE IF Head(o).k = k THEN <<KV(k, v)>> \o Tail(o)
  ELSE <<Head(o)>> \o PutMember(Tail(o), k, v)

RECURSIVE ParseString(_, _, _)
ParseString(txt, i, acc) ==
  IF i > Len(txt) THEN ParseFail
  ELSE IF txt[i] = Quote THEN ParseOk(Str(acc), i + 1)
  ELSE IF txt[i] = Backslash
       THEN IF i + 1 <= Len(txt) /\ txt[i + 1] \in {Quote, Backslash}
            THEN ParseString(txt, i + 2, Append(acc, txt[i + 1]))
            ELSE ParseFail
  ELSE ParseString(txt, i + 1, Append(acc, txt[i]))

RECURSIVE ParseValue(_, _)
RECURSIVE ParseElems(_, _, _)
RECURSIVE ParseMembers(_, _, _)

ParseValue(txt, i) ==
  IF i > Len(txt) THEN ParseFail
  ELSE CASE txt[i] = Quote -> ParseString(txt, i + 1, <<>>)
         [] txt[i] = "[" ->
              IF i + 1 <= Len(txt) /\ txt[i + 1] = "]"
              THEN ParseOk(Arr(<<>>), i + 2)
              ELSE ParseElems(txt, i + 1, <<>>)
         [] txt[i] = "{" ->
              IF i + 1 <= Len(txt) /\ txt[i + 1] = "}"
              THEN ParseOk(Obj(<<>>), i + 2)
              ELSE ParseMembers(txt, i + 1, <<>>)
         [] txt[i] = "null" -> ParseOk(Null, i + 1)
         [] txt[i] = "true" -> ParseOk([t |-> "bool", b |-> TRUE], i + 1)
         [] txt[i] = "false" -> ParseOk([t |-> "bool", b |-> FALSE], i + 1)
         [] txt[i] \in NumWords -> ParseOk(Num(NumOfWord(txt[i])), i + 1)
         [] OTHER -> ParseFail

ParseElems(txt, i, acc) ==
  LET r == ParseValue(txt, i)
  IN IF ~r.ok \/ r.i > Len(txt) THEN ParseFail
     ELSE IF txt[r.i] = "," THEN ParseElems(txt, r.i + 1, Append(acc, r.v))
     ELSE IF txt[r.i] = "]" THEN ParseOk(Arr(Append(acc, r.v)), r.i + 1)
     ELSE ParseFail

ParseMembers(txt, i, acc) ==
  IF i > Len(txt) \/ txt[i] # Quote THEN ParseFail
  ELSE LET k == ParseString(txt, i + 1, <<>>)
       IN IF ~k.ok \/ k.i > Len(txt) \/ txt[k.i] # ":" THEN ParseFail
          ELSE LET r == ParseValue(txt, k.i + 1)
                   o == PutMember(acc, k.v.s, r.v)
               IN IF ~r.ok \/ r.i > Len(txt) THEN ParseFail
                  ELSE IF txt[r.i] = "," THEN ParseMembers(txt, r.i + 1, o)
                  ELSE IF txt[r.i] = "}" THEN ParseOk(Obj(o), r.i + 1)
                  ELSE ParseFail

\* JSON.parse(text): [ok, v]; ok = FALSE is the SyntaxError it throws.
JsonParse(txt) ==
  LET r == ParseValue(txt, 1)
  IN IF r.ok /\ r.i = Len(txt) + 1 THEN [ok |-> TRUE, v |-> r.v]
     ELSE [ok |-> FALSE, v |-> Null]

\* substituteQuery(input, query): [ok, v]; ok = FALSE when JSON.parse throws.
substituteQuery(input, query) == JsonParse(ReplaceQuery(Stringify(input), query))

\* ---------------------------------------------------------------- $ref
\* Error messages are [kind, detail]: the fixed text and the interpolated part.
Msg(kind, detail) == [kind |-> kind, detail |-> detail]
NoMsg == Msg("", <<>>)

Fail(msg) == [ok |-> FALSE, v |-> Null, err |-> msg]
Done(v) == [ok |-> TRUE, v |-> v, err |-> NoMsg]

\* s.split(sep) on atoms: the pieces between the separator atoms.
RECURSIVE SplitAt(_, _, _)
SplitAt(s, sep, cur) ==
  IF s = <<>> THEN <<cur>>
  ELSE IF Head(s) = sep THEN <<cur>> \o SplitAt(Tail(s), sep, <<>>)
  ELSE SplitAt(Tail(s), sep, Append(cur, Head(s)))
Split(s, sep) == SplitAt(s, sep, <<>>)

\* s.replace(a, ""): the first occurrence of the atom removed.
RECURSIVE RemoveFirst(_, _)
RemoveFirst(s, a) ==
  IF s = <<>> THEN <<>>
  ELSE IF Head(s) = a THEN Tail(s)
  ELSE <<Head(s)>> \o RemoveFirst(Tail(s), a)

\* parseInt(s, 10): [nan, n]; leading digits, an optional minus sign.
NaN == [nan |-> TRUE, n |-> 0]
ParseInt(s) ==
  IF Len(s) >= 1 /\ s[1] \in NumWords THEN [nan |-> FALSE, n |-> NumOfWord(s[1])]
  ELSE IF Len(s) >= 2 /\ s[1] = "-" /\ s[2] \in NumWords
       THEN [nan |-> FALSE, n |-> 0 - NumOfWord(s[2])]
  ELSE NaN

\* typeof val === "object" && val !== null
IsObjectLike(v) == v.t \in {"obj", "arr"}

\* key in val, val[key] for objects and arrays.  The in operator also finds
\* what the value inherits from its prototype (Object.prototype's members
\* for any object, length and the indices for an array); such a member
\* reads as a function, length as the number of elements.
InheritedKeys == {<<"constructor">>, <<"toString">>}
Fn(name) == [t |-> "fn", name |-> name]
HasOwn(v, k) ==
  CASE v.t = "obj" -> \E i \in 1..Len(v.o) : v.o[i].k = k
    [] v.t = "arr" ->
         \/ Len(k) = 1 /\ k[1] \in NumWords /\ NumOfWord(k[1]) < Len(v.a)
         \/ k = <<"length">>
    [] OTHER -> FALSE
HasKey(v, k) == HasOwn(v, k) \/ (v.t \in {"obj", "arr"} /\ k \in InheritedKeys)
GetKey(v, k) ==
  IF ~HasOwn(v, k) THEN Fn(k)
  ELSE CASE v.t = "obj" -> v.o[CHOOSE i \in 1..Len(v.o) : v.o[i].k = k].v
         [] v.t = "arr" ->
              IF k = <<"length">> THEN Num(Len(v.a)) ELSE v.a[NumOfWord(k[1]) + 1]

\* The context: node id |-> output.  Keys are kept in insertion order.
EmptyContext == <<>>
CtxHas(ctx, id) == \E i \in 1..Len(ctx) : ctx[i].k = id
CtxGet(ctx, id) == ctx[CHOOSE i \in 1..Len(ctx) : ctx[i].k = id].v
CtxPut(ctx, id, out) == PutMember(ctx, id, out)
CtxKeys(ctx) == {ctx[i].k : i \in 1..Len(ctx)}

\* One token of the path applied to val (the body of the for loop).
RefToken(val, token, path) ==
  IF Contains(token, "[") /\ token # <<>> /\ token[Len(token)] = "]"
  THEN LET pieces == Split(token, "[")
           head == pieces[1]
           idx == ParseInt(RemoveFirst(pieces[2], "]"))
           noField == head # <<>> /\ (~IsObjectLike(val) \/ ~HasKey(val, head))
           arr == IF head # <<>> THEN GetKey(val, head) ELSE val
       IN IF noField THEN Fail(Msg("$ref field not found", path))
          ELSE IF ~IsArr(arr) \/ (~idx.nan /\ (idx.n < 0 \/ idx.n >= Len(arr.a)))
               THEN Fail(Msg("$ref index out of range", path))
          ELSE IF idx.nan THEN Done(Undef)
          ELSE Done(arr.a[idx.n + 1])
  ELSE IF ~IsObjectLike(val) \/ ~HasKey(val, token)
       THEN Fail(Msg("$ref field not found", path))
       ELSE Done(GetKey(val, token))

RECURSIVE RefWalk(_, _, _)
RefWalk(val, tokens, path) ==
  IF tokens = <<>> THEN Done(val)
  ELSE LET r == RefToken(val, Head(tokens), path)
       IN IF r.ok THEN RefWalk(r.v, Tail(tokens), path) ELSE r

resolveRef(path, context) ==
  LET parts == Split(path, ".")
  IN IF Len(parts) < 5 \/ parts[1] # <<"$">> \/ parts[2] # <<"nodes">>
        \/ parts[4] # <<"output">>
     THEN Fail(Msg("Unsupported $ref path", path))
     ELSE IF Len(parts[3]) = 1 /\ CtxHas(context, parts[3][1])
          THEN RefWalk(CtxGet(context, parts[3][1]), SubSeq(parts, 5, Len(parts)), path)
     \* nodeId in context: the context object inherits Object.prototype's members
     ELSE IF parts[3] \in InheritedKeys
          THEN RefWalk(Fn(parts[3]), SubSeq(parts, 5, Len(parts)), path)
     ELSE Fail(Msg("$ref to unknown node", parts[3]))

RefKey == <<"$ref">>

RECURSIVE resolveInput(_, _)
RECURSIVE ResolveMembers(_, _, _)
RECURSIVE ResolveElems(_, _, _)

\* mutant: the elements of an array are not resolved
resolveInputNotInArrays(obj, context) ==
  CASE obj.t = "obj" ->
         IF Len(obj.o) = 1 /\ obj.o[1].k = RefKey /\ IsStr(obj.o[1].v)
         THEN resolveRef(obj.o[1].v.s, context)
         ELSE ResolveMembers(obj.o, context, <<>>)
    [] OTHER -> Done(obj)

resolveInput(obj, context) ==
  CASE obj.t = "obj" ->
         IF Len(obj.o) = 1 /\ obj.o[1].k = RefKey /\ IsStr(obj.o[1].v)
         THEN resolveRef(obj.o[1].v.s, context)
         ELSE ResolveMembers(obj.o, context, <<>>)
    [] obj.t = "arr" -> ResolveElems(obj.a, context, <<>>)
    [] OTHER -> Done(obj)

ResolveMembers(o, context, acc) ==
  IF o = <<>> THEN Done(Obj(acc))
  ELSE LET r == resolveInput(Head(o).v, context)
       IN IF r.ok THEN ResolveMembers(Tail(o), context, Append(acc, KV(Head(o).k, r.v)))
          ELSE r

ResolveElems(a, context, acc) ==
  IF a = <<>> THEN Done(Arr(acc))
  ELSE LET r == resolveInput(Head(a), context)
       IN IF r.ok THEN ResolveElems(Tail(a), context, Append(acc, r.v)) ELSE r

\* ---------------------------------------------------------------- jq
\* Expressions are strings too: "|", " ", "." and the brackets are atoms of
\* their own, a stage name or a field name is a word.
Pipe == "|"
Space == " "

\* A character outside the Basic Multilingual Plane, which a JavaScript
\* string stores as a surrogate pair.
Astral == "U+1F600"
\* s.length: the number of UTF-16 code units of the string.
Units(a) == IF a = Astral THEN 2 ELSE Len(a)
RECURSIVE StringLength(_)
StringLength(s) == IF s = <<>> THEN 0 ELSE Units(Head(s)) + StringLength(Tail(s))

\* Object.keys(data) and Object.entries(data).map(([key, value]) => ({key, value}))
ObjectKeys(o) == [i \in 1..Len(o) |-> Str(o[i].k)]
ToEntries(o) ==
  [i \in 1..Len(o) |-> Obj(<<KV(<<"key">>, Str(o[i].k)), KV(<<"value">>, o[i].v)>>)]

\* tok.indexOf("["): the first position of the atom (0 when there is none).
IndexOf(s, a) ==
  IF Contains(s, a) THEN CHOOSE i \in 1..Len(s) : s[i] = a /\ \A j \in 1..(i - 1) : s[j] # a
  ELSE 0

\* indexPart.match(/\[(\d+)\]/): the first "[", digits, "]" in a row.
IndexMatches(s) ==
  {i \in 1..(Len(s) - 2) : s[i] = "[" /\ s[i + 1] \in NumWords /\ s[i + 2] = "]"}
IndexMatch(s) ==
  IF IndexMatches(s) = {} THEN NaN
  ELSE LET i == CHOOSE m \in IndexMatches(s) : \A o \in IndexMatches(s) : m <= o
       IN [nan |-> FALSE, n |-> NumOfWord(s[i + 1])]

\* One token of a dotted path applied to cur (the body of the for loop):
\* [ok, v, err, stop], stop for the return null that ends the stage.
Step(r, stop) == [ok |-> r.ok, v |-> r.v, err |-> r.err, stop |-> stop]
JqToken(cur, tok) ==
  LET bracketIdx == IndexOf(tok, "[")
  IN IF bracketIdx # 0
     THEN LET head == SubSeq(tok, 1, bracketIdx - 1)
              indexPart == SubSeq(tok, bracketIdx, Len(tok))
              noField == head # <<>> /\ (~IsObjectLike(cur) \/ ~HasKey(cur, head))
              arr == IF head # <<>> THEN GetKey(cur, head) ELSE cur
              m == IndexMatch(indexPart)
          IN IF noField THEN Step(Fail(Msg("field not found", head)), FALSE)
             ELSE IF m.nan THEN Step(Fail(Msg("invalid index", indexPart)), FALSE)
             ELSE IF ~IsArr(arr) \/ m.n >= Len(arr.a) THEN Step(Done(Null), TRUE)
             ELSE Step(Done(arr.a[m.n + 1]), FALSE)
     ELSE IF ~IsObjectLike(cur) \/ ~HasKey(cur, tok)
          THEN Step(Fail(Msg("field not found", tok)), FALSE)
          ELSE Step(Done(GetKey(cur, tok)), FALSE)

\* mutant: an index past the end gives null and the walk goes on
RECURSIVE JqWalkContinues(_, _)
JqWalkContinues(cur, tokens) ==
  IF tokens = <<>> THEN Done(cur)
  ELSE IF Head(tokens) = <<>> THEN JqWalkContinues(cur, Tail(tokens))
  ELSE LET r == JqToken(cur, Head(tokens))
       IN IF ~r.ok THEN Fail(r.err)
          ELSE JqWalkContinues(r.v, Tail(tokens))

\* lines 249-278: the for loop over the tokens of a stage
RECURSIVE JqWalk(_, _)
JqWalk(cur, tokens) ==
  IF tokens = <<>> THEN Done(cur)
  ELSE IF Head(tokens) = <<>> THEN JqWalk(cur, Tail(tokens))
  ELSE LET r == JqToken(cur, Head(tokens))
       IN IF ~r.ok THEN Fail(r.err)
          ELSE IF r.stop THEN Done(Null)
          ELSE JqWalk(r.v, Tail(tokens))

\* typeof data !== "object" || data === null || Array.isArray(data)
NotPlainObject(data) == data.t # "obj"

jqSingle(data, expr) ==
  IF expr = <<>> \/ expr = <<".">> THEN Done(data)
  ELSE IF expr = <<"to_entries">>
       THEN IF NotPlainObject(data) THEN Fail(Msg("to_entries requires object input", <<>>))
            ELSE Done(Arr(ToEntries(data.o)))
  ELSE IF expr = <<"keys">>
       THEN IF NotPlainObject(data) THEN Fail(Msg("keys requires object input", <<>>))
            ELSE Done(Arr(ObjectKeys(data.o)))
  ELSE IF expr = <<"length">>
       THEN CASE data.t = "arr" -> Done(Num(Len(data.a)))
              [] data.t = "obj" -> Done(Num(Len(ObjectKeys(data.o))))
              [] data.t = "str" -> Done(Num(StringLength(data.s)))
              [] OTHER -> Fail(Msg("length requires array, object, or string", <<>>))
  ELSE IF Head(expr) # "."
       THEN Fail(Msg("expression must start with '.', got", expr))
  ELSE JqWalk(data, Split(Tail(expr), "."))

\* p.trim(): the spaces at both ends removed.
RECURSIVE TrimStart(_)
TrimStart(s) == IF s # <<>> /\ Head(s) = Space THEN TrimStart(Tail(s)) ELSE s
RECURSIVE TrimEnd(_)
TrimEnd(s) ==
  IF s # <<>> /\ s[Len(s)] = Space THEN TrimEnd(SubSeq(s, 1, Len(s) - 1)) ELSE s
Trim(s) == TrimEnd(TrimStart(s))

\* mutant: a stage that throws is passed over, the next one gets its input
RECURSIVE JqStagesSkipFailed(_, _)
JqStagesSkipFailed(cur, parts) ==
  IF parts = <<>> THEN Done(cur)
  ELSE LET r == jqSingle(cur, Trim(Head(parts)))
       IN JqStagesSkipFailed(IF r.ok THEN r.v ELSE cur, Tail(parts))

\* mutant: the stages are applied from the right
RECURSIVE JqStagesFromRight(_, _)
JqStagesFromRight(cur, parts) ==
  IF parts = <<>> THEN Done(cur)
  ELSE LET r == jqSingle(cur, Trim(parts[Len(parts)]))
       IN IF r.ok THEN JqStagesFromRight(r.v, SubSeq(parts, 1, Len(parts) - 1)) ELSE r

\* for (const part of parts) cur = jqSingle(cur, part)
RECURSIVE JqStages(_, _)
JqStages(cur, parts) ==
  IF parts = <<>> THEN Done(cur)
  ELSE LET r == jqSingle(cur, Trim(Head(parts)))
       IN IF r.ok THEN JqStages(r.v, Tail(parts)) ELSE r

jqEval(data, expr) ==
  IF expr = <<>> \/ expr = <<".">> THEN Done(data)
  ELSE JqStages(data, Split(expr, Pipe))

\* ---------------------------------------------------------------- registry
ACTION_HANDLERS == {"plugin.http.get", "plugin.transform.xml2json", "plugin.transform.jq"}
\* line 350: ACTION_HANDLERS[node.actionRef] indexes an object literal, so a
\* name the literal does not hold is looked up on Object.prototype.  Of the
\* inherited members, toString is the one the runs below use: called as
\* handler(node, input) it has no receiver and returns "[object Undefined]".
\* (constructor is found as well and returns the node; the other members throw
\* a TypeError when called without a receiver.)
InheritedHandlers == {"toString"}
HandlerFound(actionRef) == actionRef \in ACTION_HANDLERS \cup InheritedHandlers

\* ---------------------------------------------------------------- state
VARIABLES
  nodes,           \* workflow.nodes
  query,           \* the query string
  pc,              \* where executeWorkflow stands
  order,           \* topoSort's order
  cycles,          \* topoSort's cycle set
  idx,             \* position of the for loop in order (1-based)
  context,         \* node id |-> output
  logs,            \* LogEntry[]
  nodeExecutions,  \* NodeExecution[]
  resolvedInput,   \* the current node's resolved input
  attempt,         \* the attempt counter of the retry loop
  lastError,       \* message of the last failed attempt
  result,          \* the ExecutionResult the promise resolved to
  calls,           \* history: every handler invocation, in order
  outcomes,        \* history: how every handler invocation settled, in order
  sleeps,          \* history: every sleep(backoffMs), in order
  parked,          \* the locals of the other run while it is suspended
  running,         \* which of two concurrent runs the event loop is executing
  path,            \* the argument of a call of resolveRef on its own
  resolved,        \* what that call returned or threw
  request,         \* the HTTP request POST is handling
  response,        \* the response POST returned
  jq,              \* a call of jqEval on its own: data, expression, outcome
  substituted,     \* what substituteQuery returned, in an input preparation on its own
  ui               \* the state of the WorkflowRunner component and of its run in flight

\* The locals of one call of executeWorkflow (with the histories kept of it).
locals == <<nodes, query, pc, order, cycles, idx, context, logs, nodeExecutions,
            resolvedInput, attempt, lastError, result, calls, outcomes, sleeps>>

vars == <<nodes, query, pc, order, cycles, idx, context, logs, nodeExecutions,
          resolvedInput, attempt, lastError, result, calls, outcomes, sleeps,
          parked, running, path, resolved, request, response, jq, substituted, ui>>

\* What a call of executeWorkflow does not touch.
apart == <<path, resolved, request, response, jq, substituted, ui>>

\* ---------------------------------------------------------------- records
Log(level, msg, nodeId) == [level |-> level, message |-> msg, nodeId |-> nodeId]
Text(msg) == <<msg.kind>> \o msg.detail

ErrorRecord(node, err) ==
  [nodeId |-> node.id, action |-> node.actionRef, status |-> "error",
   durationMs |-> 0, inputData |-> Undef, outputData |-> Undef, error |-> err]
SuccessRecord(node, d, input, output) ==
  [nodeId |-> node.id, action |-> node.actionRef, status |-> "success",
   durationMs |-> d, inputData |-> input, outputData |-> output, error |-> NoMsg]

NoResult == [returned |-> FALSE, success |-> FALSE, hasError |-> FALSE, error |-> NoMsg]
Failure(err) == [returned |-> TRUE, success |-> FALSE, hasError |-> TRUE, error |-> err]
Success == [returned |-> TRUE, success |-> TRUE, hasError |-> FALSE, error |-> NoMsg]

\* nodeMap = Object.fromEntries(nodes.map(n => [n.id, n])): the last node of an id.
HasNode(ns, id) == \E i \in 1..Len(ns) : ns[i].id = id
NodeOf(ns, id) ==
  ns[CHOOSE i \in 1..Len(ns) : ns[i].id = id /\ \A j \in (i + 1)..Len(ns) : ns[j].id # id]

\* mutant: a retry policy gives at least one attempt
MaxAttemptsOfAtLeastOne(node) ==
  IF node.retry.present /\ node.retry.maxAttempts >= 1 THEN node.retry.maxAttempts ELSE 1

\* node.retry?.maxAttempts ?? 1 and node.retry?.backoffMs ?? 0
MaxAttemptsOf(node) == IF node.retry.present THEN node.retry.maxAttempts ELSE 1
BackoffOf(node) == IF node.retry.present THEN node.retry.backoffMs ELSE 0

\* mutant: durationMs >= node.timeoutMs
TimedOutInclusive(node, d) == node.timeoutMs # 0 /\ d >= node.timeoutMs

\* mutant: a budget of 1 ms applied to a node that declares no timeout
TimedOutDefaultBudget(node, d) ==
  d > (IF node.timeoutMs # 0 THEN node.timeoutMs ELSE 1)

\* node.timeoutMs && durationMs > node.timeoutMs
TimedOut(node, d) == node.timeoutMs # 0 /\ d > node.timeoutMs

CurId == order[idx]
Cur == NodeOf(nodes, CurId)

\* ---------------------------------------------------------------- inputs
NodeIds == <<"n1", "n2", "n3", "n4", "n5", "n6">>
Ghost == "zz"       \* an id that no node of the workflow declares
IdSet(n) == {NodeIds[i] : i \in 1..n}

\* The input template of the catalog's first nodes: a URL and a query parameter.
QueryTemplate ==
  Obj(<<KV(<<"url">>, Str(<<"u">>)), KV(<<"q">>, Str(<<"all:", QueryToken>>))>>)

Path(tokens) == <<"$", ".", "nodes", ".", "n1", ".", "output", ".">> \o tokens
Ref(tokens) == Obj(<<KV(RefKey, Str(Path(tokens)))>>)

\* {xml: {$ref: "$.nodes.n1.output.body"}}, as the catalog's second nodes
BodyTemplate == Obj(<<KV(<<"xml">>, Ref(<<"body">>))>>)
\* references nested in an object and in an array, a field[index] token
DeepTemplate ==
  Obj(<<KV(<<"v">>, Ref(<<"body", ".", "list", "[", "1", "]">>)),
        KV(<<"w">>, Arr(<<Ref(<<"status">>), Num(5)>>))>>)
\* a reference to a field no output has
MissingTemplate == Obj(<<KV(<<"v">>, Ref(<<"nope">>))>>)

Templates == {QueryTemplate, BodyTemplate, DeepTemplate, MissingTemplate}

Queries == {<<"x">>, <<Quote>>, <<"a", Backslash>>}

\* What a handler may return, and what it may throw.
OutFull ==
  Obj(<<KV(<<"status">>, Num(200)),
        KV(<<"body">>, Obj(<<KV(<<"value">>, Str(<<"x">>)),
                             KV(<<"list">>, Arr(<<Num(10), Num(20)>>))>>))>>)
OutText == Obj(<<KV(<<"status">>, Num(404)), KV(<<"body">>, Str(<<"nf">>))>>)
Outputs == {OutFull, OutText}
Errors == {Msg("e1", <<>>), Msg("e2", <<>>)}
\* What a call of the handler found for an action can return: a registered
\* handler any output; Object.prototype.toString the tag of undefined.
ObjectUndefined == Str(<<"[object Undefined]">>)
ReturnsOf(actionRef) ==
  IF actionRef \in ACTION_HANDLERS THEN Outputs ELSE {ObjectUndefined}
Durations == 1..MaxDur

DefaultNode(i, deps) == Node(NodeIds[i], "plugin.http.get", QueryTemplate, deps, 0, NoRetry)

\* dependsOn lists for topoSort alone: up to two entries, possibly repeated,
\* possibly naming the undeclared id.
TopoDeps(n) ==
  LET ids == IdSet(n) \cup {Ghost}
      pos(d) == IF d = Ghost THEN 0 ELSE CHOOSE i \in 1..n : NodeIds[i] = d
  IN {<<>>} \cup {<<d>> : d \in ids}
       \cup {p \in ids \X ids : pos(p[1]) <= pos(p[2])}
TopoInput(n, g) == [i \in 1..n |-> DefaultNode(i, g[i])]

\* Workflows that are executed.  Shapes: every dependency structure with at
\* most one (possibly repeated) entry per node, all nodes as the catalog's.
RunDeps(n) ==
  {<<>>} \cup {<<d>> : d \in IdSet(n) \cup {Ghost}} \cup {<<d, d>> : d \in IdSet(n)}
ShapeWorkflow(n, g) == [i \in 1..n |-> DefaultNode(i, g[i])]

\* Policies: the pair n1 <- n2 (as the catalog's workflows), in which node s
\* has its own action, retry policy, timeout and input template; the other
\* node is as the catalog's: n1 fetches, n2 transforms n1's body.
Backoffs == {7}
Retries == {NoRetry} \cup {Retry(m, b) : m \in (-1)..MaxAttempts, b \in Backoffs}
Policies ==
  [actionRef : {"plugin.http.get", "plugin.nope"}, retry : Retries,
   timeoutMs : {0, 1}, input : Templates]
\* Policies whose action is no registered name but a member of Object.prototype.
InheritedPolicies ==
  [actionRef : InheritedHandlers, retry : {NoRetry, Retry(2, 7)},
   timeoutMs : {0, 1}, input : {QueryTemplate}]
ChainDeps(i) == IF i = 1 THEN <<>> ELSE <<NodeIds[i - 1]>>
PolicyWorkflow(s, p) ==
  [i \in {1, 2} |->
     IF i = s
     THEN Node(NodeIds[i], p.actionRef, p.input, ChainDeps(i), p.timeoutMs, p.retry)
     ELSE IF i = 1 THEN DefaultNode(1, <<>>)
     ELSE Node(NodeIds[2], "plugin.transform.xml2json", BodyTemplate, ChainDeps(2),
               0, NoRetry)]

\* ---------------------------------------------------------------- executeWorkflow
Fresh ==
  /\ order = <<>> /\ cycles = <<>> /\ idx = 0 /\ context = EmptyContext
  /\ logs = <<>> /\ nodeExecutions = <<>> /\ resolvedInput = Undef
  /\ attempt = 0 /\ lastError = NoMsg /\ result = NoResult
  /\ calls = <<>> /\ outcomes = <<>> /\ sleeps = <<>>

\* One call of executeWorkflow, no second run and no separate resolveRef call.
NoRun == <<>>
Alone == parked = NoRun /\ running = 1
NoRef == path = <<>> /\ resolved = Fail(NoMsg)
NoRequest == [kind |-> "none"]
NoResponse == [status |-> 0]
Direct == request = NoRequest /\ response = NoResponse
NoJq == [data |-> Undef, expr |-> <<>>, out |-> Fail(NoMsg)]
NoEval == jq = NoJq
NotSubstituted == [ok |-> FALSE, v |-> Undef]
Unprepared == substituted = NotSubstituted
NoUi == [mounted |-> FALSE]
Unmounted == ui = NoUi

Init ==
  /\ \/ \E n \in 1..RunNodes : \E g \in [1..n -> RunDeps(n)] : nodes = ShapeWorkflow(n, g)
     \/ \E s \in {1, 2} : \E p \in Policies : nodes = PolicyWorkflow(s, p)
     \/ \E s \in {1, 2} : \E p \in InheritedPolicies : nodes = PolicyWorkflow(s, p)
  /\ query \in Queries
  /\ pc = "start"
  /\ Fresh /\ Alone /\ NoRef /\ Direct /\ NoEval /\ Unprepared /\ Unmounted

Return(res) == result' = res /\ pc' = "done"

\* mutant: the error names only the first id of the cycle set
StartNamesFirst ==
  /\ pc = "start"
  /\ LET r == topoSort(nodes)
     IN /\ order' = r.order
        /\ cycles' = r.cycles
        /\ logs' = <<Log("info", Msg("Starting workflow", <<"wf">>), ""),
                     Log("info", Msg("Query", query), "")>>
        /\ IF Len(r.cycles) > 0
           THEN Return(Failure(Msg("Cycle detected", <<r.cycles[1]>>))) /\ idx' = idx
           ELSE pc' = "loop" /\ idx' = 1 /\ result' = result
  /\ UNCHANGED <<parked, running, apart, nodes, query, context, nodeExecutions,
                 resolvedInput, attempt, lastError, calls, outcomes, sleeps>>

\* lines 316-344: the two opening log lines, topoSort, the cycle check
Start ==
  /\ pc = "start"
  /\ LET r == topoSort(nodes)
     IN /\ order' = r.order
        /\ cycles' = r.cycles
        /\ logs' = <<Log("info", Msg("Starting workflow", <<"wf">>), ""),
                     Log("info", Msg("Query", query), "")>>
        /\ IF Len(r.cycles) > 0
           THEN Return(Failure(Msg("Cycle detected", r.cycles))) /\ idx' = idx
           ELSE pc' = "loop" /\ idx' = 1 /\ result' = result
  /\ UNCHANGED <<parked, running, apart, nodes, query, context, nodeExecutions, resolvedInput, attempt,
                 lastError, calls, outcomes, sleeps>>

\* mutant: the run returns its success without the completion entry
FinishSilent ==
  /\ pc = "loop" /\ idx > Len(order)
  /\ logs' = logs
  /\ Return(Success)
  /\ UNCHANGED <<parked, running, apart, nodes, query, order, cycles, idx, context, nodeExecutions,
                 resolvedInput, attempt, lastError, calls, outcomes, sleeps>>

\* lines 473-485: the loop is over
Finish ==
  /\ pc = "loop" /\ idx > Len(order)
  /\ logs' = Append(logs, Log("success", Msg("Workflow completed", <<>>), ""))
  /\ Return(Success)
  /\ UNCHANGED <<parked, running, apart, nodes, query, order, cycles, idx, context, nodeExecutions,
                 resolvedInput, attempt, lastError, calls, outcomes, sleeps>>

\* line 348: if (!node) continue
SkipUnknown ==
  /\ pc = "loop" /\ idx <= Len(order) /\ ~HasNode(nodes, CurId)
  /\ idx' = idx + 1
  /\ UNCHANGED <<parked, running, apart, nodes, query, pc, order, cycles, context, logs, nodeExecutions,
                 resolvedInput, attempt, lastError, result, calls, outcomes, sleeps>>

\* mutant: the missing handler is treated as a failed attempt and retried
MissingHandlerRetried ==
  /\ pc = "loop" /\ idx <= Len(order) /\ HasNode(nodes, CurId)
  /\ ~HandlerFound(Cur.actionRef)
  /\ LET err == Msg("Action not implemented", <<Cur.actionRef>>)
         retries == [j \in 1..(MaxAttemptsOf(Cur) - 1) |->
                       Log("info",
                           Msg("Retrying", <<CurId, ToString(j),
                                             ToString(MaxAttemptsOf(Cur))>> \o Text(err)),
                           CurId)]
     IN /\ logs' = Append(logs \o retries, Log("error", err, CurId))
        /\ nodeExecutions' = Append(nodeExecutions, ErrorRecord(Cur, err))
        /\ Return(Failure(err))
  /\ UNCHANGED <<parked, running, apart, nodes, query, order, cycles, idx, context, resolvedInput, attempt,
                 lastError, calls, outcomes, sleeps>>

\* mutant: a node without a handler is skipped like an unknown id
MissingHandlerSkips ==
  /\ pc = "loop" /\ idx <= Len(order) /\ HasNode(nodes, CurId)
  /\ ~HandlerFound(Cur.actionRef)
  /\ idx' = idx + 1
  /\ UNCHANGED <<parked, running, apart, nodes, query, pc, order, cycles, context, logs, nodeExecutions,
                 resolvedInput, attempt, lastError, result, calls, outcomes, sleeps>>

\* lines 350-368: no handler registered for the action
MissingHandler ==
  /\ pc = "loop" /\ idx <= Len(order) /\ HasNode(nodes, CurId)
  /\ ~HandlerFound(Cur.actionRef)
  /\ LET err == Msg("Action not implemented", <<Cur.actionRef>>)
     IN /\ logs' = Append(logs, Log("error", err, CurId))
        /\ nodeExecutions' = Append(nodeExecutions, ErrorRecord(Cur, err))
        /\ Return(Failure(err))
  /\ UNCHANGED <<parked, running, apart, nodes, query, order, cycles, idx, context, resolvedInput, attempt,
                 lastError, calls, outcomes, sleeps>>

Dispatchable ==
  /\ pc = "loop" /\ idx <= Len(order) /\ HasNode(nodes, CurId)
  /\ HandlerFound(Cur.actionRef)

RunningLog == Log("running", Msg("Starting", <<CurId, Cur.actionRef>>), CurId)

\* lines 370-378: substituteQuery is called outside any try: JSON.parse
\* throwing rejects the promise executeWorkflow returned.
SubstituteThrows ==
  /\ Dispatchable
  /\ ~substituteQuery(Cur.input, query).ok
  /\ logs' = Append(logs, RunningLog)
  /\ pc' = "rejected"
  /\ UNCHANGED <<parked, running, apart, nodes, query, order, cycles, idx, context, nodeExecutions,
                 resolvedInput, attempt, lastError, result, calls, outcomes, sleeps>>

\* mutant: the resolution error is swallowed and the handler gets no input
ResolveFailsProceeds ==
  /\ Dispatchable
  /\ LET sub == substituteQuery(Cur.input, query)
         r == resolveInput(sub.v, context)
     IN sub.ok /\ ~r.ok
  /\ resolvedInput' = Undef
  /\ logs' = Append(logs, RunningLog)
  /\ attempt' = 1
  /\ lastError' = NoMsg
  /\ pc' = "try"
  /\ UNCHANGED <<parked, running, apart, nodes, query, order, cycles, idx, context, nodeExecutions, result,
                 calls, outcomes, sleeps>>

\* lines 379-399: resolveInput throws
ResolveFails ==
  /\ Dispatchable
  /\ LET sub == substituteQuery(Cur.input, query)
         r == resolveInput(sub.v, context)
     IN /\ sub.ok /\ ~r.ok
        /\ logs' = Append(Append(logs, RunningLog),
                     Log("error", Msg("Input resolution failed", <<CurId>> \o Text(r.err)),
                         CurId))
        /\ nodeExecutions' = Append(nodeExecutions, ErrorRecord(Cur, r.err))
        /\ Return(Failure(r.err))
  /\ UNCHANGED <<parked, running, apart, nodes, query, order, cycles, idx, context, resolvedInput, attempt,
                 lastError, calls, outcomes, sleeps>>

\* lines 379-407: the input resolved, the retry loop starts at attempt 1
BeginAttempts ==
  /\ Dispatchable
  /\ LET sub == substituteQuery(Cur.input, query)
         r == resolveInput(sub.v, context)
     IN /\ sub.ok /\ r.ok
        /\ resolvedInput' = r.v
  /\ logs' = Append(logs, RunningLog)
  /\ attempt' = 1
  /\ lastError' = NoMsg
  /\ pc' = "try"
  /\ UNCHANGED <<parked, running, apart, nodes, query, order, cycles, idx, context, nodeExecutions, result,
                 calls, outcomes, sleeps>>

\* mutant: the handler's promise is not awaited, the loop goes on at once
InvokeNotAwaited ==
  /\ pc = "try" /\ attempt <= MaxAttemptsOf(Cur)
  /\ calls' = Append(calls, [nodeId |-> CurId, input |-> resolvedInput,
                             attempt |-> attempt])
  /\ idx' = idx + 1
  /\ pc' = "loop"
  /\ UNCHANGED <<parked, running, apart, nodes, query, order, cycles, context,
                 logs, nodeExecutions, resolvedInput, attempt, lastError, result,
                 outcomes, sleeps>>

\* mutant: a retry hands the handler the node's template, not the resolved input
InvokeWithTemplate ==
  /\ pc = "try" /\ attempt <= MaxAttemptsOf(Cur)
  /\ calls' = Append(calls, [nodeId |-> CurId,
                             input |-> IF attempt = 1 THEN resolvedInput ELSE Cur.input,
                             attempt |-> attempt])
  /\ pc' = "await"
  /\ UNCHANGED <<parked, running, apart, nodes, query, order, cycles, idx, context, logs, nodeExecutions,
                 resolvedInput, attempt, lastError, result, outcomes, sleeps>>

\* lines 407-410: attempt <= maxAttempts, the handler is called and awaited
Invoke ==
  /\ pc = "try" /\ attempt <= MaxAttemptsOf(Cur)
  /\ calls' = Append(calls, [nodeId |-> CurId, input |-> resolvedInput,
                             attempt |-> attempt])
  /\ pc' = "await"
  /\ UNCHANGED <<parked, running, apart, nodes, query, order, cycles, idx, context, logs, nodeExecutions,
                 resolvedInput, attempt, lastError, result, outcomes, sleeps>>

\* mutant: the failure is logged and recorded, but the loop goes on
ExhaustedContinues ==
  /\ pc = "try" /\ attempt > MaxAttemptsOf(Cur)
  /\ logs' = Append(logs, Log("error", Msg("Failed", <<CurId>> \o Text(lastError)), CurId))
  /\ nodeExecutions' = Append(nodeExecutions, ErrorRecord(Cur, lastError))
  /\ idx' = idx + 1
  /\ pc' = "loop"
  /\ UNCHANGED <<parked, running, apart, nodes, query, order, cycles, context, resolvedInput, attempt,
                 lastError, result, calls, outcomes, sleeps>>

\* lines 449-470: the loop ended without success
Exhausted ==
  /\ pc = "try" /\ attempt > MaxAttemptsOf(Cur)
  /\ logs' = Append(logs, Log("error", Msg("Failed", <<CurId>> \o Text(lastError)), CurId))
  /\ nodeExecutions' = Append(nodeExecutions, ErrorRecord(Cur, lastError))
  /\ Return(Failure(lastError))
  /\ UNCHANGED <<parked, running, apart, nodes, query, order, cycles, idx, context, resolvedInput, attempt,
                 lastError, calls, outcomes, sleeps>>

\* mutant: attempt <= maxAttempts, a retry is logged after the last attempt too
AttemptFailedOffByOne(err) ==
  /\ lastError' = err
  /\ IF attempt <= MaxAttemptsOf(Cur)
     THEN /\ logs' = Append(logs,
                       Log("info",
                           Msg("Retrying", <<CurId, ToString(attempt),
                                             ToString(MaxAttemptsOf(Cur))>> \o Text(err)),
                           CurId))
          /\ sleeps' = Append(sleeps, [nodeId |-> CurId, ms |-> BackoffOf(Cur)])
          /\ pc' = "sleep"
          /\ attempt' = attempt
     ELSE /\ attempt' = attempt + 1
          /\ pc' = "try"
          /\ UNCHANGED <<logs, sleeps>>
  /\ UNCHANGED <<parked, running, apart, nodes, query, order, cycles, idx, context, nodeExecutions,
                 resolvedInput, result, calls>>

\* mutant: every failed attempt writes an error record
AttemptFailedRecorded(err) ==
  /\ lastError' = err
  /\ nodeExecutions' = Append(nodeExecutions, ErrorRecord(Cur, err))
  /\ IF attempt < MaxAttemptsOf(Cur)
     THEN /\ logs' = Append(logs,
                       Log("info",
                           Msg("Retrying", <<CurId, ToString(attempt),
                                             ToString(MaxAttemptsOf(Cur))>> \o Text(err)),
                           CurId))
          /\ sleeps' = Append(sleeps, [nodeId |-> CurId, ms |-> BackoffOf(Cur)])
          /\ pc' = "sleep"
          /\ attempt' = attempt
     ELSE /\ attempt' = attempt + 1
          /\ pc' = "try"
          /\ UNCHANGED <<logs, sleeps>>
  /\ UNCHANGED <<parked, running, apart, nodes, query, order, cycles, idx,
                 context, resolvedInput, result, calls>>

\* lines 435-446: the catch block
AttemptFailed(err) ==
  /\ lastError' = err
  /\ IF attempt < MaxAttemptsOf(Cur)
     THEN /\ logs' = Append(logs,
                       Log("info",
                           Msg("Retrying", <<CurId, ToString(attempt),
                                             ToString(MaxAttemptsOf(Cur))>> \o Text(err)),
                           CurId))
          /\ sleeps' = Append(sleeps, [nodeId |-> CurId, ms |-> BackoffOf(Cur)])
          /\ pc' = "sleep"
          /\ attempt' = attempt
     ELSE /\ attempt' = attempt + 1
          /\ pc' = "try"
          /\ UNCHANGED <<logs, sleeps>>
  /\ UNCHANGED <<parked, running, apart, nodes, query, order, cycles, idx, context, nodeExecutions,
                 resolvedInput, result, calls>>

\* How a handler call settled: it returned an output after d ms, or it threw.
Returned(id, output, d) ==
  [nodeId |-> id, kind |-> "returned", output |-> output, durationMs |-> d, error |-> NoMsg]
Threw(id, err) ==
  [nodeId |-> id, kind |-> "threw", output |-> Undef, durationMs |-> 0, error |-> err]

TimeoutMsg(node, d) ==
  Msg("Timeout exceeded", <<ToString(d), "ms", ">", ToString(node.timeoutMs), "ms">>)

\* lines 410-434: the handler returned within the node's timeout
HandlerReturns(output, d) ==
  /\ pc = "await" /\ ~TimedOut(Cur, d)
  /\ output \in ReturnsOf(Cur.actionRef)
  /\ context' = CtxPut(context, CurId, output)
  /\ nodeExecutions' = Append(nodeExecutions, SuccessRecord(Cur, d, resolvedInput, output))
  /\ logs' = Append(logs, Log("success", Msg("Completed", <<CurId, ToString(d), "ms">>), CurId))
  /\ idx' = idx + 1
  /\ pc' = "loop"
  /\ outcomes' = Append(outcomes, Returned(CurId, output, d))
  /\ UNCHANGED <<parked, running, apart, nodes, query, order, cycles, resolvedInput, attempt, lastError,
                 result, calls, sleeps>>

\* mutant: the output is stored before the timeout is checked
HandlerOverrunsStored(output, d) ==
  /\ pc = "await" /\ TimedOut(Cur, d)
  /\ output \in ReturnsOf(Cur.actionRef)
  /\ outcomes' = Append(outcomes, Returned(CurId, output, d))
  /\ context' = CtxPut(context, CurId, output)
  /\ lastError' = TimeoutMsg(Cur, d)
  /\ IF attempt < MaxAttemptsOf(Cur)
     THEN /\ logs' = Append(logs,
                       Log("info",
                           Msg("Retrying", <<CurId, ToString(attempt),
                                             ToString(MaxAttemptsOf(Cur))>>
                                             \o Text(TimeoutMsg(Cur, d))),
                           CurId))
          /\ sleeps' = Append(sleeps, [nodeId |-> CurId, ms |-> BackoffOf(Cur)])
          /\ pc' = "sleep"
          /\ attempt' = attempt
     ELSE /\ attempt' = attempt + 1
          /\ pc' = "try"
          /\ UNCHANGED <<logs, sleeps>>
  /\ UNCHANGED <<parked, running, apart, nodes, query, order, cycles, idx,
                 nodeExecutions, resolvedInput, result, calls>>

\* lines 410-416: the handler returned, but later than the node's timeout
HandlerOverruns(output, d) ==
  /\ pc = "await" /\ TimedOut(Cur, d)
  /\ output \in ReturnsOf(Cur.actionRef)
  /\ outcomes' = Append(outcomes, Returned(CurId, output, d))
  /\ AttemptFailed(TimeoutMsg(Cur, d))

\* line 410 into 435: the handler threw (its promise rejected)
HandlerThrows(err) ==
  /\ pc = "await" /\ Cur.actionRef \in ACTION_HANDLERS
  /\ outcomes' = Append(outcomes, Threw(CurId, err))
  /\ AttemptFailed(err)

\* mutant: a timer of the engine fails the attempt when timeoutMs has passed
WakeOrCancel ==
  \/ /\ pc = "sleep"
     /\ attempt' = attempt + 1
     /\ pc' = "try"
     /\ UNCHANGED <<parked, running, apart, nodes, query, order, cycles, idx, context,
                    logs, nodeExecutions, resolvedInput, lastError, result, calls,
                    outcomes, sleeps>>
  \/ /\ pc = "await" /\ Cur.timeoutMs # 0
     /\ outcomes' = outcomes
     /\ AttemptFailed(TimeoutMsg(Cur, Cur.timeoutMs))

\* line 444: the backoff sleep is over, attempt++
Wake ==
  /\ pc = "sleep"
  /\ attempt' = attempt + 1
  /\ pc' = "try"
  /\ UNCHANGED <<parked, running, apart, nodes, query, order, cycles, idx, context, logs, nodeExecutions,
                 resolvedInput, lastError, result, calls, outcomes, sleeps>>

Next ==
  \/ Start
  \/ Finish
  \/ SkipUnknown
  \/ MissingHandler
  \/ SubstituteThrows
  \/ ResolveFails
  \/ BeginAttempts
  \/ Invoke
  \/ Exhausted
  \/ \E output \in Outputs \cup {ObjectUndefined}, d \in Durations : HandlerReturns(output, d)
  \/ \E output \in Outputs \cup {ObjectUndefined}, d \in Durations : HandlerOverruns(output, d)
  \/ \E err \in Errors : HandlerThrows(err)
  \/ Wake

Spec == Init /\ [][Next]_vars


\* ---------------------------------------------------------------- topoSort alone
\* The same node lists with numbers as ids: n1 is "2", n2 is "1", n3 is "10".
NumberOf(id) ==
  CASE id = "n1" -> "2" [] id = "n2" -> "1" [] id = "n3" -> "10" [] id = "n4" -> "5"
    [] OTHER -> id
Numbered(ns) ==
  [i \in 1..Len(ns) |->
     [ns[i] EXCEPT !.id = NumberOf(@),
                   !.dependsOn = [j \in 1..Len(@) |-> NumberOf(@[j])]]]

InitTopo ==
  /\ \E n \in 1..MaxNodes :
       \/ \E g \in [1..n -> TopoDeps(n)] : nodes = TopoInput(n, g)
       \/ \E g \in [1..n -> RunDeps(n)] : nodes = Numbered(TopoInput(n, g))
  /\ query = <<"x">>
  /\ pc = "topo"
  /\ Fresh /\ Alone /\ NoRef /\ Direct /\ NoEval /\ Unprepared /\ Unmounted

ApplyTopoSort ==
  /\ pc = "topo"
  /\ order' = topoSort(nodes).order
  /\ cycles' = topoSort(nodes).cycles
  /\ pc' = "sorted"
  /\ UNCHANGED <<parked, running, apart, nodes, query, idx, context, logs, nodeExecutions, resolvedInput,
                 attempt, lastError, result, calls, outcomes, sleeps>>

SpecTopo == InitTopo /\ [][ApplyTopoSort]_vars

\* ---------------------------------------------------------------- two runs
\* Two calls of executeWorkflow in one process.  JavaScript runs one of them
\* at a time and changes over only where the running one awaits (the handler
\* call, the backoff sleep), has returned or has not been called yet.  All
\* that a call writes is in its locals (lines 316-318, 331, 343-344);
\* ACTION_HANDLERS and the workflow objects are only read.
Pack ==
  [nodes |-> nodes, query |-> query, pc |-> pc, order |-> order, cycles |-> cycles,
   idx |-> idx, context |-> context, logs |-> logs, nodeExecutions |-> nodeExecutions,
   resolvedInput |-> resolvedInput, attempt |-> attempt, lastError |-> lastError,
   result |-> result, calls |-> calls, outcomes |-> outcomes, sleeps |-> sleeps]

NotCalled(ns, q) ==
  [nodes |-> ns, query |-> q, pc |-> "start", order |-> <<>>, cycles |-> <<>>,
   idx |-> 0, context |-> EmptyContext, logs |-> <<>>, nodeExecutions |-> <<>>,
   resolvedInput |-> Undef, attempt |-> 0, lastError |-> NoMsg, result |-> NoResult,
   calls |-> <<>>, outcomes |-> <<>>, sleeps |-> <<>>]

Suspended(p) == p \in {"start", "await", "sleep", "done", "rejected"}

Unpack(r) ==
  /\ nodes' = r.nodes /\ query' = r.query /\ pc' = r.pc /\ order' = r.order
  /\ cycles' = r.cycles /\ idx' = r.idx /\ logs' = r.logs
  /\ nodeExecutions' = r.nodeExecutions /\ resolvedInput' = r.resolvedInput
  /\ attempt' = r.attempt /\ lastError' = r.lastError /\ result' = r.result
  /\ calls' = r.calls /\ outcomes' = r.outcomes /\ sleeps' = r.sleeps

\* mutant: the context is one object of the module, shared by all calls
SwitchSharedContext ==
  /\ Suspended(pc) /\ parked.pc \notin {"done", "rejected"}
  /\ Unpack(parked)
  /\ context' = context
  /\ parked' = Pack
  /\ running' = 3 - running
  /\ UNCHANGED apart

\* The event loop leaves the running call at an await and resumes the other.
Switch ==
  /\ Suspended(pc) /\ parked.pc \notin {"done", "rejected"}
  /\ Unpack(parked)
  /\ context' = parked.context
  /\ parked' = Pack
  /\ running' = 3 - running
  /\ UNCHANGED apart

\* The workflows of the two calls: the catalog's pair n1 <- n2, the second
\* node with a timeout and one retry, or with references into n1's output.
PairChain(input, timeout, retry) ==
  <<DefaultNode(1, <<>>),
    Node("n2", "plugin.transform.xml2json", input, <<"n1">>, timeout, retry)>>
PairFirst == PairChain(BodyTemplate, 1, Retry(2, 7))
PairOther == PairChain(DeepTemplate, 0, NoRetry)
PairInputs ==
  {<<PairFirst, <<"x">> >>, <<PairFirst, <<"y">> >>, <<PairOther, <<"y">> >>}
PairDurations == {1, 2}
PairErrors == {Msg("e1", <<>>)}

InitPair ==
  /\ nodes = PairFirst /\ query = <<"x">>
  /\ pc = "start"
  /\ Fresh
  /\ \E in \in PairInputs : parked = NotCalled(in[1], in[2])
  /\ running = 1
  /\ NoRef /\ Direct /\ NoEval /\ Unprepared /\ Unmounted

NextPair ==
  \/ Start
  \/ Finish
  \/ ResolveFails
  \/ BeginAttempts
  \/ Invoke
  \/ Exhausted
  \/ \E output \in Outputs, d \in PairDurations : HandlerReturns(output, d)
  \/ \E output \in Outputs, d \in PairDurations : HandlerOverruns(output, d)
  \/ \E err \in PairErrors : HandlerThrows(err)
  \/ Wake
  \/ Switch

SpecPair == InitPair /\ [][NextPair]_vars

\* ---------------------------------------------------------------- resolveRef alone
\* An output with objects in arrays and arrays in objects.
OutDeep ==
  Obj(<<KV(<<"items">>,
           Arr(<<Obj(<<KV(<<"name">>, Str(<<"a">>)),
                       KV(<<"tags">>, Arr(<<Str(<<"t">>), Str(<<"u">>)>>))>>),
                 Obj(<<KV(<<"name">>, Str(<<"b">>)), KV(<<"tags">>, Arr(<<>>))>>)>>)),
        KV(<<"meta">>, Obj(<<KV(<<"count">>, Num(2)), KV(<<"none">>, Null)>>))>>)
RefOutputs == {OutFull, OutText, OutDeep}

\* The places of a value that a path of field and field[index] tokens
\* selects, each with the tokens (joined by ".") and the value stored there.
Place(t, v) == [t |-> t, v |-> v]
Under(prefix, places) == {Place(prefix \o <<".">> \o p.t, p.v) : p \in places}
RECURSIVE Places(_)
Places(v) ==
  IF v.t # "obj" THEN {}
  ELSE UNION {
    LET k == v.o[i].k
        x == v.o[i].v
    IN {Place(k, x)} \cup Under(k, Places(x))
       \cup (IF x.t # "arr" THEN {}
             ELSE UNION {
               LET at == k \o <<"[", ToString(j - 1), "]">>
               IN {Place(at, x.a[j])} \cup Under(at, Places(x.a[j]))
               : j \in 1..Len(x.a)})
    : i \in 1..Len(v.o)}

\* Field names that none of the outputs has anywhere.
AbsentFields == {<<"nope">>, <<"constructor">>, <<"toString">>}
\* Paths to a field that is missing: an absent name at the top of the output
\* or under one of its places (an object without the name, or no object).
MissingFieldPaths(v) ==
  AbsentFields \cup UNION {{p.t \o <<".">> \o f : f \in AbsentFields} : p \in Places(v)}
\* Paths with an index that is negative or not below the array's length.
BadIndexPaths(v) ==
  UNION {{p.t \o <<"[", ToString(Len(p.v.a)), "]">>, p.t \o <<"[", "-", "1", "]">>}
         : p \in {q \in Places(v) : q.v.t = "arr" /\ q.t[Len(q.t)] # "]"}}

\* Paths with an index applied to a place that holds no array, and with an
\* index that is no number.
NonArrayIndexPaths(v) ==
  {p.t \o <<"[", "0", "]">> : p \in {q \in Places(v) : q.v.t # "arr" /\ q.t[Len(q.t)] # "]"}}
NonNumericIndexPaths(v) ==
  {p.t \o <<"[", "x", "]">> : p \in {q \in Places(v) : q.v.t = "arr" /\ q.t[Len(q.t)] # "]"}}
\* Paths that are too short or not of the form $.nodes.<id>.output.<...>
MalformedPaths ==
  {<<"$", ".", "nodes", ".", "n1">>,
   <<"$", ".", "nodes", ".", "n1", ".", "output">>,
   <<"nodes", ".", "n1", ".", "output", ".", "body">>,
   <<"x", ".", "nodes", ".", "n1", ".", "output", ".", "body">>,
   <<"$", ".", "node", ".", "n1", ".", "output", ".", "body">>,
   <<"$", ".", "nodes", ".", "n1", ".", "out", ".", "body">>,
   <<"$", ".", "nodes", ".", "n1", ".", "body", ".", "output">>,
   <<>>}
\* Paths to a node that has not run yet, that no workflow has, and whose id
\* is the name of a member the context inherits.
UnknownNodePaths ==
  {<<"$", ".", "nodes", ".", id, ".", "output", ".">> \o t
     : id \in {"n2", Ghost, "constructor"}, t \in {<<"body">>, <<"body", "[", "0", "]">>}}

RefPaths(v) ==
  {Path(p.t) : p \in Places(v)} \cup {Path(t) : t \in MissingFieldPaths(v)}
    \cup {Path(t) : t \in BadIndexPaths(v)}
    \cup {Path(t) : t \in NonArrayIndexPaths(v) \cup NonNumericIndexPaths(v)}
    \cup MalformedPaths \cup UnknownNodePaths

InitRef ==
  /\ \E out \in RefOutputs :
       /\ context = CtxPut(EmptyContext, "n1", out)
       /\ path \in RefPaths(out)
  /\ resolved = Fail(NoMsg)
  /\ pc = "ref"
  /\ nodes = <<>> /\ query = <<>> /\ order = <<>> /\ cycles = <<>> /\ idx = 0
  /\ logs = <<>> /\ nodeExecutions = <<>> /\ resolvedInput = Undef
  /\ attempt = 0 /\ lastError = NoMsg /\ result = NoResult
  /\ calls = <<>> /\ outcomes = <<>> /\ sleeps = <<>>
  /\ Alone /\ Direct /\ NoEval /\ Unprepared /\ Unmounted

ApplyResolveRef ==
  /\ pc = "ref"
  /\ resolved' = resolveRef(path, context)
  /\ pc' = "resolved"
  /\ UNCHANGED <<nodes, query, order, cycles, idx, context, logs, nodeExecutions,
                 resolvedInput, attempt, lastError, result, calls, outcomes, sleeps,
                 parked, running, path, request, response, jq, substituted, ui>>

SpecRef == InitRef /\ [][ApplyResolveRef]_vars

\* ---------------------------------------------------------------- POST /api/execute
\* WORKFLOWS (src/lib/workflows.ts): two of the catalog's workflows, as the
\* chain of a fetch node (query in its input, timeout, one retry) and a
\* transform node that reads the fetched output by reference.
ArxivSearch ==
  <<Node("n1", "plugin.http.get", QueryTemplate, <<>>, 1, Retry(2, 7)),
    Node("n2", "plugin.transform.xml2json", BodyTemplate, <<"n1">>, 0, NoRetry)>>
BookSearch ==
  <<Node("n1", "plugin.http.get", QueryTemplate, <<>>, 1, Retry(2, 7)),
    Node("n2", "plugin.transform.jq", DeepTemplate, <<"n1">>, 0, NoRetry)>>
WorkflowNames == {<<"arxiv_search">>, <<"book_search">>}
\* WORKFLOWS[name]: an own entry, a member inherited from Object.prototype
\* (a function, which has no metadata and no nodes), or undefined.
WorkflowsGet(name) ==
  CASE name = <<"arxiv_search">> -> [found |-> TRUE, isWorkflow |-> TRUE, nodes |-> ArxivSearch]
    [] name = <<"book_search">> -> [found |-> TRUE, isWorkflow |-> TRUE, nodes |-> BookSearch]
    [] name \in InheritedKeys -> [found |-> TRUE, isWorkflow |-> FALSE, nodes |-> <<>>]
    [] OTHER -> [found |-> FALSE, isWorkflow |-> FALSE, nodes |-> <<>>]

\* The request: a body that is no JSON, the JSON null, or a JSON object whose
\* workflowName and query are absent (Undef) or strings.
Garbage == [kind |-> "garbage", workflowName |-> Undef, query |-> Undef]
NullBody == [kind |-> "null", workflowName |-> Undef, query |-> Undef]
Body(w, q) == [kind |-> "object", workflowName |-> w, query |-> q]
RequestNames ==
  {Undef, Str(<<>>), Str(<<"arxiv_search">>), Str(<<"book_search">>), Str(<<"nope">>),
   Str(<<"constructor">>)}
RequestQueries == {Undef, Str(<<>>), Str(<<"x">>), Str(<<Quote>>)}
Requests ==
  {Garbage, NullBody} \cup {Body(w, q) : w \in RequestNames, q \in RequestQueries}

\* !v for the values a body carries
Falsy(v) == v \in {Undef, Null, Str(<<>>), Num(0)}

Response(status, body) == [status |-> status, body |-> body]
ErrorBody(msg) == [error |-> msg]

InitRoute ==
  /\ request \in Requests
  /\ response = NoResponse
  /\ pc = "request"
  /\ nodes = <<>> /\ query = <<>>
  /\ Fresh /\ Alone /\ NoRef /\ NoEval /\ Unprepared /\ Unmounted

Reply(r) ==
  /\ response' = r
  /\ pc' = "responded"
  /\ UNCHANGED <<nodes, query, order, cycles, idx, context, logs, nodeExecutions,
                 resolvedInput, attempt, lastError, result, calls, outcomes, sleeps,
                 parked, running, path, resolved, request, jq, substituted, ui>>

\* lines 7-11 into 30-32: request.json() rejects, or destructuring null throws
BodyThrows ==
  /\ pc = "request" /\ request.kind \in {"garbage", "null"}
  /\ Reply(Response(500, ErrorBody(Msg("body", <<request.kind>>))))

\* lines 13-18
MissingField ==
  /\ pc = "request" /\ request.kind = "object"
  /\ Falsy(request.workflowName) \/ Falsy(request.query)
  /\ Reply(Response(400, ErrorBody(Msg("Missing workflowName or query", <<>>))))

\* lines 20-26
UnknownWorkflow ==
  /\ pc = "request" /\ request.kind = "object"
  /\ ~Falsy(request.workflowName) /\ ~Falsy(request.query)
  /\ ~WorkflowsGet(request.workflowName.s).found
  /\ Reply(Response(404, ErrorBody(Msg("Unknown workflow", request.workflowName.s))))

\* lines 20, 28 into 30-32: the lookup returns an inherited member, on which
\* executeWorkflow throws reading workflow.metadata.name (line 323)
NotAWorkflow ==
  /\ pc = "request" /\ request.kind = "object"
  /\ ~Falsy(request.workflowName) /\ ~Falsy(request.query)
  /\ WorkflowsGet(request.workflowName.s).found
  /\ ~WorkflowsGet(request.workflowName.s).isWorkflow
  /\ Reply(Response(500, ErrorBody(Msg("Cannot read properties of undefined", <<>>))))

\* line 28: executeWorkflow(workflow, query) is called
Execute ==
  /\ pc = "request" /\ request.kind = "object"
  /\ ~Falsy(request.workflowName) /\ ~Falsy(request.query)
  /\ WorkflowsGet(request.workflowName.s).isWorkflow
  /\ nodes' = WorkflowsGet(request.workflowName.s).nodes
  /\ query' = request.query.s
  /\ pc' = "start"
  /\ UNCHANGED <<order, cycles, idx, context, logs, nodeExecutions, resolvedInput,
                 attempt, lastError, result, calls, outcomes, sleeps,
                 parked, running, path, resolved, request, response, jq, substituted, ui>>

\* lines 28-29: the awaited result, passed to NextResponse.json as it is
Report == [result |-> result, logs |-> logs, nodeExecutions |-> nodeExecutions]
Respond ==
  /\ pc = "done"
  /\ Reply(Response(200, Report))

\* lines 28 into 30-32: the promise of executeWorkflow rejected
RunThrows ==
  /\ pc = "rejected"
  /\ Reply(Response(500, ErrorBody(Msg("SyntaxError", <<>>))))

NextRoute ==
  \/ BodyThrows
  \/ MissingField
  \/ UnknownWorkflow
  \/ NotAWorkflow
  \/ Execute
  \/ Start
  \/ Finish
  \/ SubstituteThrows
  \/ ResolveFails
  \/ BeginAttempts
  \/ Invoke
  \/ Exhausted
  \/ \E output \in Outputs, d \in Durations : HandlerReturns(output, d)
  \/ \E output \in Outputs, d \in Durations : HandlerOverruns(output, d)
  \/ \E err \in Errors : HandlerThrows(err)
  \/ Wake
  \/ Respond
  \/ RunThrows

SpecRoute == InitRoute /\ [][NextRoute]_vars

\* ---------------------------------------------------------------- jqEval alone
\* The values an expression is evaluated on.  Objects are written in the
\* order Object.keys lists their keys; the characters of a string are single
\* atoms here.
Sample == Obj(<<KV(<<"a">>, Obj(<<KV(<<"b">>, Arr(<<Num(10), Num(20)>>))>>))>>)
Flat == Obj(<<KV(<<"b">>, Num(1)), KV(<<"a">>, Num(2))>>)
JqData ==
  {Undef, Null, Num(5), Bool(TRUE), Str(<<>>), Str(<<"a", "b", "c">>),
   Str(<<"a", Astral>>), Arr(<<>>), Arr(<<Num(1), Num(2), Num(5)>>),
   Obj(<<>>), Flat, Sample, OutFull, OutDeep}

BuiltIns == {<<"keys">>, <<"to_entries">>, <<"length">>}
\* Dotted paths: fields, field[index] with the index below, at and above the
\* length, a field that is missing, a name that is only inherited, an index
\* on a value that is no array, a bare index, a malformed index.
Dotted(tokens) == <<".">> \o tokens
JqPaths ==
  {Dotted(<<"a">>),
   Dotted(<<"a", ".", "b">>),
   Dotted(<<"a", ".", "b", "[", "0", "]">>),
   Dotted(<<"a", ".", "b", "[", "1", "]">>),
   Dotted(<<"a", ".", "b", "[", "2", "]">>),
   Dotted(<<"a", ".", "b", "[", "5", "]">>),
   Dotted(<<"a", ".", "c">>),
   Dotted(<<"a", ".", "toString">>),
   Dotted(<<"a", "[", "0", "]">>),
   Dotted(<<"a", "[", "5", "]", ".", "missing">>),
   Dotted(<<"a", ".", "b", "[", "5", "]", ".", "c">>),
   Dotted(<<"a", ".", "b", "[", "-", "1", "]">>),
   Dotted(<<"[", "0", "]">>),
   Dotted(<<".", "a">>),
   Dotted(<<"body", ".", "list", "[", "1", "]">>),
   Dotted(<<"items", "[", "0", "]", ".", "tags", "[", "1", "]">>),
   Dotted(<<"meta", ".", "none">>),
   Dotted(<<"meta", ".", "none", ".", "x">>)}
\* Stages joined by pipes, with and without spaces around them.
Piped(a, b) == a \o <<Space, Pipe, Space>> \o b
JqPipes ==
  {Piped(Dotted(<<"a">>), <<"keys">>),
   Piped(Dotted(<<"a", ".", "b">>), <<"length">>),
   Piped(<<"to_entries">>, <<"length">>),
   Piped(Dotted(<<"a", "[", "5", "]">>), Dotted(<<"missing">>)),
   Piped(Dotted(<<"a", ".", "c">>), <<"length">>),
   Piped(Piped(<<"keys">>, Dotted(<<"[", "0", "]">>)), <<"length">>),
   Dotted(<<"a">>) \o <<Pipe>> \o Dotted(<<"b">>),
   <<Space>> \o Dotted(<<"a">>) \o <<Space>>}
\* Every pipe of two stages, and some of three.
JqStageExprs ==
  {<<>>, <<".">>, <<"nope">>, <<"keys">>, <<"to_entries">>, <<"length">>,
   Dotted(<<"a">>), Dotted(<<"b">>), Dotted(<<"[", "0", "]">>), Dotted(<<"[", "5", "]">>),
   Dotted(<<"missing">>)}
JqPairs == {Piped(a, b) : a, b \in JqStageExprs}
JqTriples ==
  {Piped(Piped(a, b), c) : a \in {<<"keys">>, Dotted(<<"a">>), <<"nope">>},
                           b \in {<<"keys">>, Dotted(<<"b">>), Dotted(<<"[", "0", "]">>)},
                           c \in {<<"length">>, Dotted(<<"[", "5", "]">>), Dotted(<<"missing">>)}}
JqExprs ==
  {<<>>, <<".">>, <<"nope">>} \cup BuiltIns \cup JqPaths \cup JqPipes \cup JqPairs
    \cup JqTriples

\* The paths into one value: to each of its places, to a field it lacks, and
\* past the end of each of its arrays.
BeyondPaths(v) ==
  {p.t \o <<"[", ToString(Len(p.v.a)), "]">>
     : p \in {q \in Places(v) : q.v.t = "arr" /\ q.t[Len(q.t)] # "]"}}
PathsInto(v) ==
  {Dotted(p.t) : p \in Places(v)} \cup {Dotted(t) : t \in MissingFieldPaths(v)}
    \cup {Dotted(t) : t \in BeyondPaths(v)}

InitJq ==
  /\ \E d \in JqData :
       jq \in [data : {d}, expr : JqExprs \cup PathsInto(d), out : {Fail(NoMsg)}]
  /\ pc = "jq"
  /\ nodes = <<>> /\ query = <<>>
  /\ Fresh /\ Alone /\ NoRef /\ Direct /\ Unprepared /\ Unmounted

ApplyJqEval ==
  /\ pc = "jq"
  /\ jq' = [jq EXCEPT !.out = jqEval(jq.data, jq.expr)]
  /\ pc' = "evaluated"
  /\ UNCHANGED <<nodes, query, order, cycles, idx, context, logs, nodeExecutions,
                 resolvedInput, attempt, lastError, result, calls, outcomes, sleeps,
                 parked, running, path, resolved, request, response, substituted, ui>>

SpecJq == InitJq /\ [][ApplyJqEval]_vars

\* ---------------------------------------------------------------- input preparation alone
\* Lines 377-381 on their own: the template of node n2, a query, and a context
\* that holds the output of n1.
\* {"{query}": "v"}: the placeholder as a key
KeyTemplate == Obj(<<KV(<<QueryToken>>, Str(<<"v">>))>>)
\* {"{query}": "$.nodes.n1.output.status"}: a reference once the query is "$ref"
KeyRefTemplate == Obj(<<KV(<<QueryToken>>, Str(Path(<<"status">>)))>>)
\* {$ref: "$.nodes.n1.output.body.{query}"}: the placeholder in a path
PathTemplate == Ref(<<"body", ".", QueryToken>>)
\* {q: "all:{query}", v: {$ref: "$.nodes.n1.output.body.value"}}
MixedTemplate ==
  Obj(<<KV(<<"q">>, Str(<<"all:", QueryToken>>)), KV(<<"v">>, Ref(<<"body", ".", "value">>))>>)
InputTemplates ==
  {QueryTemplate, BodyTemplate, DeepTemplate, KeyTemplate, KeyRefTemplate, PathTemplate,
   MixedTemplate}
PlainQueries == {<<"x">>, <<"value">>, RefKey, <<"a", Dollar, "1">>}
PatternQueries == {<<Dollar, Dollar>>, <<Dollar, "&">>, <<"a", Dollar, "'">>, <<Dollar, Grave>>}
InputQueries == PlainQueries \cup PatternQueries \cup {<<Quote>>, <<"a", Backslash>>}
\* an upstream output that holds the text of the placeholder
OutToken ==
  Obj(<<KV(<<"status">>, Num(200)),
        KV(<<"body">>, Obj(<<KV(<<"value">>, Str(<<"is:", QueryToken>>)),
                             KV(<<"list">>, Arr(<<Str(<<QueryToken>>), Num(20)>>))>>))>>)
InputOutputs == {OutFull, OutText, OutToken}
Template == nodes[2].input

InitInput ==
  /\ \E t \in InputTemplates :
       nodes = <<DefaultNode(1, <<>>),
                 Node("n2", "plugin.transform.xml2json", t, <<"n1">>, 0, NoRetry)>>
  /\ query \in InputQueries
  /\ \E out \in InputOutputs : context = CtxPut(EmptyContext, "n1", out)
  /\ pc = "prepare"
  /\ order = <<"n1", "n2">> /\ cycles = <<>> /\ idx = 2
  /\ logs = <<>> /\ nodeExecutions = <<>> /\ resolvedInput = Undef
  /\ attempt = 0 /\ lastError = NoMsg /\ result = NoResult
  /\ calls = <<>> /\ outcomes = <<>> /\ sleeps = <<>>
  /\ Alone /\ NoRef /\ Direct /\ NoEval /\ Unprepared /\ Unmounted

\* line 378: const substituted = substituteQuery(node.input, query)
ApplySubstituteQuery ==
  /\ pc = "prepare"
  /\ substituted' = substituteQuery(Template, query)
  /\ pc' = IF substituted'.ok THEN "substituted" ELSE "rejected"
  /\ UNCHANGED <<nodes, query, order, cycles, idx, context, logs, nodeExecutions,
                 resolvedInput, attempt, lastError, result, calls, outcomes, sleeps,
                 parked, running, path, resolved, request, response, jq, ui>>

\* lines 380-382: resolvedInput = resolveInput(substituted, context), or the catch
ApplyResolveInput ==
  /\ pc = "substituted"
  /\ LET r == resolveInput(substituted.v, context)
     IN /\ resolvedInput' = r.v
        /\ lastError' = r.err
        /\ pc' = IF r.ok THEN "resolved" ELSE "failed"
  /\ UNCHANGED <<nodes, query, order, cycles, idx, context, logs, nodeExecutions,
                 attempt, result, calls, outcomes, sleeps, parked, running, apart>>

SpecInput == InitInput /\ [][ApplySubstituteQuery \/ ApplyResolveInput]_vars

\* ================================================================ properties
Declared(ns) == {ns[i].id : i \in 1..Len(ns)}
DepsOf(ns, id) == UNION {Range(ns[i].dependsOn) : i \in {j \in 1..Len(ns) : ns[j].id = id}}
DepsDeclared(ns) == \A i \in 1..Len(ns) : Range(ns[i].dependsOn) \subseteq Declared(ns)

\* The ids reachable from the set s along dependsOn edges (s included).
RECURSIVE Closure(_, _)
Closure(ns, s) ==
  LET next == s \cup UNION {DepsOf(ns, id) : id \in s}
  IN IF next = s THEN s ELSE Closure(ns, next)
HasCycle(ns) == \E id \in Declared(ns) : id \in Closure(ns, DepsOf(ns, id))

Pos(seq, x) == CHOOSE i \in 1..Len(seq) : seq[i] = x
IsPermutationOf(seq, set) == Len(seq) = Cardinality(set) /\ Range(seq) = set
DepsFirst(ord, ns) ==
  \A i \in 1..Len(ns) : \A d \in Range(ns[i].dependsOn) :
    /\ Contains(ord, d) /\ Contains(ord, ns[i].id)
    /\ Pos(ord, d) < Pos(ord, ns[i].id)

CallsOf(id) == Cardinality({i \in 1..Len(calls) : calls[i].nodeId = id})
RetryLogsOf(id) ==
  Cardinality({i \in 1..Len(logs) :
                 logs[i].nodeId = id /\ logs[i].message.kind = "Retrying"})
RecordsOf(id) == {i \in 1..Len(nodeExecutions) : nodeExecutions[i].nodeId = id}
HasRecord(id, status) ==
  \E i \in RecordsOf(id) : nodeExecutions[i].status = status

\* C1: for every acyclic node list (whose dependsOn entries name declared
\* nodes) topoSort returns an empty cycle set and an order that is a
\* permutation of the node ids in which every node follows its dependencies.
C1_ValidTopologicalOrder ==
  (pc = "sorted" /\ DepsDeclared(nodes) /\ ~HasCycle(nodes)) =>
    /\ cycles = <<>>
    /\ IsPermutationOf(order, Declared(nodes))
    /\ DepsFirst(order, nodes)

C3_NeverRejects == pc # "rejected"

OutcomesOf(id) == SelectSeq(outcomes, LAMBDA o : o.nodeId = id)
\* an attempt failed: the handler threw, or returned later than the timeout
FailedAttempt(o, node) ==
  o.kind = "threw" \/ (node.timeoutMs # 0 /\ o.durationMs > node.timeoutMs)
FailuresOf(node) ==
  Cardinality({i \in 1..Len(outcomes) :
                 outcomes[i].nodeId = node.id /\ FailedAttempt(outcomes[i], node)})
LastOf(seq) == seq[Len(seq)]
RunFailed == result.returned /\ ~result.success

\* C4: retry accounting.  For a node with maxAttempts M >= 1 whose handler
\* was invoked and that has reached its record, with k failed attempts:
\* k < M gives k+1 invocations, k retry log entries, a success record and no
\* abort by this node; k >= M gives M invocations, M-1 retry log entries, an
\* error record and a failed result.  In every state the retry entries of a
\* node number min(k, M-1).
C4_RetryAccounting ==
  \A i \in 1..Len(nodes) :
    LET n == nodes[i]
        M == MaxAttemptsOf(n)
        k == FailuresOf(n)
    IN (M >= 1 /\ CallsOf(n.id) >= 1) =>
         /\ CallsOf(n.id) <= M
         /\ RetryLogsOf(n.id) = (IF k < M THEN k ELSE M - 1)
         /\ (RecordsOf(n.id) # {} /\ k < M) =>
              /\ ~FailedAttempt(LastOf(OutcomesOf(n.id)), n)
              /\ CallsOf(n.id) = k + 1
              /\ HasRecord(n.id, "success") /\ ~HasRecord(n.id, "error")
              /\ RunFailed => LastOf(nodeExecutions).nodeId # n.id
         /\ (RecordsOf(n.id) # {} /\ k >= M) =>
              /\ CallsOf(n.id) = M
              /\ HasRecord(n.id, "error") /\ ~HasRecord(n.id, "success")
              /\ RunFailed
         /\ (RecordsOf(n.id) = {} /\ k >= M) => pc = "try" /\ CurId = n.id

\* maxAttempts = 3, two failed attempts, then a success record
C4_Witness ==
  \E i \in 1..Len(nodes) :
    /\ MaxAttemptsOf(nodes[i]) = 3 /\ FailuresOf(nodes[i]) = 2
    /\ CallsOf(nodes[i].id) = 3 /\ HasRecord(nodes[i].id, "success")

\* C5: fail-fast.  An error record is always the last record and comes with
\* the failed result carrying its message; when a node exhausted its
\* attempts the message is that of the last failed attempt, the last handler
\* call was that node's, and no node later in the order has a call or record.
ExhaustedRun ==
  /\ pc = "done" /\ nodeExecutions # <<>>
  /\ LastOf(nodeExecutions).status = "error"
  /\ CallsOf(LastOf(nodeExecutions).nodeId) >= 1
AttemptError(o, node) ==
  IF o.kind = "threw" THEN o.error ELSE TimeoutMsg(node, o.durationMs)
C5_FailFast ==
  /\ \A i \in 1..Len(nodeExecutions) :
       nodeExecutions[i].status = "error" =>
         /\ i = Len(nodeExecutions)
         /\ pc = "done"
         /\ result = Failure(nodeExecutions[i].error)
  /\ ExhaustedRun =>
       LET r == LastOf(nodeExecutions)
           n == NodeOf(nodes, r.nodeId)
       IN /\ LastOf(calls).nodeId = r.nodeId
          /\ LastOf(outcomes).nodeId = r.nodeId
          /\ r.error = AttemptError(LastOf(outcomes), n)
          /\ result.error = AttemptError(LastOf(outcomes), n)
          /\ \A j \in (Pos(order, r.nodeId) + 1)..Len(order) :
               CallsOf(order[j]) = 0 /\ RecordsOf(order[j]) = {}

\* a node failed twice with different messages and a later node never ran
C5_Witness ==
  /\ ExhaustedRun
  /\ LET id == LastOf(nodeExecutions).nodeId
         os == OutcomesOf(id)
     IN /\ Len(os) >= 2
        /\ os[1].kind = "threw" /\ LastOf(os).kind = "threw"
        /\ os[1].error # LastOf(os).error
        /\ Pos(order, id) < Len(order)

\* C6: the returned success flag is true exactly when every node of the
\* workflow has a success record; then there is one record per node.
AllSucceeded == \A i \in 1..Len(nodes) : HasRecord(nodes[i].id, "success")
Undeclared(ns) == (UNION {Range(ns[i].dependsOn) : i \in 1..Len(ns)}) \ Declared(ns)
NoRepeatedDeps(ns) ==
  \A i \in 1..Len(ns) : Cardinality(Range(ns[i].dependsOn)) = Len(ns[i].dependsOn)

C8_UnregisteredIsFatal ==
  \A i \in 1..Len(nodes) :
    LET n == nodes[i]
        err == Msg("Action not implemented", <<n.actionRef>>)
    IN IF n.actionRef \notin ACTION_HANDLERS
       THEN /\ CallsOf(n.id) = 0 /\ RetryLogsOf(n.id) = 0
            /\ \A j \in 1..Len(sleeps) : sleeps[j].nodeId # n.id
            /\ Cardinality(RecordsOf(n.id)) <= 1
            /\ \A j \in RecordsOf(n.id) :
                 /\ nodeExecutions[j] = ErrorRecord(n, err)
                 /\ nodeExecutions[j].durationMs = 0
                 /\ j = Len(nodeExecutions)
                 /\ pc = "done" /\ result = Failure(err)
            /\ (pc # "start" /\ Contains(order, n.id)) =>
                 /\ idx <= Pos(order, n.id)
                 /\ (idx = Pos(order, n.id)) =>
                      /\ pc \in {"loop", "done"}
                      /\ pc = "done" => RecordsOf(n.id) # {}
       ELSE (HasRecord(n.id, "error") /\ CallsOf(n.id) >= 1) =>
              /\ CallsOf(n.id) = MaxAttemptsOf(n)
              /\ RetryLogsOf(n.id) = MaxAttemptsOf(n) - 1

\* an unregistered node with maxAttempts = 3 got its error record after an
\* earlier node had run
C8_Witness ==
  \E i \in 1..Len(nodes) :
    /\ nodes[i].actionRef \notin ACTION_HANDLERS
    /\ MaxAttemptsOf(nodes[i]) = 3
    /\ RecordsOf(nodes[i].id) # {}
    /\ Len(nodeExecutions) = 2

\* C9: the handler of a node is invoked only with the input that resolution
\* produced; when resolution fails the node has no call, no retry entry and
\* exactly one error record (the last), the run has returned success =
\* false with that error, and no later node has a call or a record.
RefErrorKinds ==
  {"Unsupported $ref path", "$ref to unknown node", "$ref field not found",
   "$ref index out of range"}
C9_ResolutionFailureIsFatal ==
  /\ pc \in {"try", "await", "sleep"} =>
       LET sub == substituteQuery(Cur.input, query)
       IN /\ sub.ok /\ resolveInput(sub.v, context).ok
          /\ resolvedInput = resolveInput(sub.v, context).v
  /\ \A j \in 1..Len(calls) : calls[j].input # Undef
  /\ \A j \in 1..Len(nodeExecutions) :
       LET r == nodeExecutions[j]
       IN r.error.kind \in RefErrorKinds =>
            /\ r.status = "error" /\ j = Len(nodeExecutions)
            /\ RecordsOf(r.nodeId) = {j}
            /\ CallsOf(r.nodeId) = 0 /\ RetryLogsOf(r.nodeId) = 0
            /\ pc = "done" /\ result = Failure(r.error)
            /\ LastOf(logs).message.kind = "Input resolution failed"
            /\ \A m \in (Pos(order, r.nodeId) + 1)..Len(order) :
                 CallsOf(order[m]) = 0 /\ RecordsOf(order[m]) = {}

\* resolution failed for a node with maxAttempts = 3 that has a node after it
C9_Witness ==
  /\ pc = "done" /\ nodeExecutions # <<>>
  /\ LET r == LastOf(nodeExecutions)
     IN /\ r.error.kind \in RefErrorKinds
        /\ MaxAttemptsOf(NodeOf(nodes, r.nodeId)) = 3
        /\ Pos(order, r.nodeId) < Len(order)

\* C10: the timeout is checked after the handler returned.  A return later
\* than a non-zero timeoutMs stores no output and writes no record; it sets
\* the timeout message and is retried when attempts remain, otherwise the
\* retry loop is left and the node ends with an error record carrying that
\* message.  A return that took exactly
\* timeoutMs (or any time, without a timeout) stores the output and writes
\* the success record.
C10_TimeoutAfterCompletion ==
  [][/\ (pc = "try" /\ attempt > MaxAttemptsOf(Cur)
         /\ lastError.kind = "Timeout exceeded") =>
          /\ pc' = "done" /\ result' = Failure(lastError)
          /\ nodeExecutions' = Append(nodeExecutions, ErrorRecord(Cur, lastError))
          /\ context' = context
     /\ (pc = "await" /\ Len(outcomes') = Len(outcomes) + 1
         /\ LastOf(outcomes').kind = "returned") =>
          LET o == LastOf(outcomes')
              n == Cur
          IN IF n.timeoutMs # 0 /\ o.durationMs > n.timeoutMs
             THEN /\ context' = context /\ nodeExecutions' = nodeExecutions
                  /\ idx' = idx
                  /\ lastError' = Msg("Timeout exceeded",
                                      <<ToString(o.durationMs), "ms", ">",
                                        ToString(n.timeoutMs), "ms">>)
                  /\ IF attempt < MaxAttemptsOf(n)
                     THEN /\ pc' = "sleep"
                          /\ Len(logs') = Len(logs) + 1
                          /\ LastOf(logs').message.kind = "Retrying"
                     ELSE /\ pc' = "try" /\ attempt' > MaxAttemptsOf(n)
                          /\ logs' = logs
             ELSE /\ CtxHas(context', n.id) /\ CtxGet(context', n.id) = o.output
                  /\ nodeExecutions' =
                       Append(nodeExecutions,
                              SuccessRecord(n, o.durationMs, resolvedInput, o.output))
                  /\ pc' = "loop" /\ idx' = idx + 1]_vars

\* a node returned too late, was retried, returned in exactly timeoutMs and
\* succeeded
C10_Witness ==
  \E i \in 1..Len(nodes) :
    LET n == nodes[i]
        os == OutcomesOf(n.id)
    IN /\ n.timeoutMs # 0 /\ Len(os) >= 2
       /\ os[1].kind = "returned" /\ os[1].durationMs > n.timeoutMs
       /\ LastOf(os).kind = "returned" /\ LastOf(os).durationMs = n.timeoutMs
       /\ HasRecord(n.id, "success")
       /\ CtxHas(context, n.id) /\ CtxGet(context, n.id) = LastOf(os).output

\* ---------------------------------------------------------------- C11
\* What a call of executeWorkflow on (ns, q) has produced when it runs alone
\* and its handler calls settle as outs says, one after the other: the
\* locals at the point where outs is used up and the call awaits again, or
\* at its end.  st = [order, idx, context, logs, nodeExecutions, result, over].
SoloFail(st, n, err, line) ==
  [st EXCEPT !.logs = Append(@, Log("error", line, n.id)),
             !.nodeExecutions = Append(@, ErrorRecord(n, err)),
             !.result = Failure(err), !.over = TRUE]

RECURSIVE SoloLoop(_, _, _, _)
RECURSIVE SoloAttempts(_, _, _, _, _, _, _, _)

SoloLoop(ns, q, st, outs) ==
  IF st.idx > Len(st.order)
  THEN [st EXCEPT !.logs = Append(@, Log("success", Msg("Workflow completed", <<>>), "")),
                  !.result = Success, !.over = TRUE]
  ELSE LET id == st.order[st.idx]
       IN IF ~HasNode(ns, id) THEN SoloLoop(ns, q, [st EXCEPT !.idx = @ + 1], outs)
          ELSE LET n == NodeOf(ns, id)
                   noHandler == Msg("Action not implemented", <<n.actionRef>>)
                   begun == [st EXCEPT !.logs =
                               Append(@, Log("running", Msg("Starting", <<id, n.actionRef>>), id))]
                   sub == substituteQuery(n.input, q)
                   r == resolveInput(sub.v, st.context)
               IN IF n.actionRef \notin ACTION_HANDLERS
                  THEN SoloFail(st, n, noHandler, noHandler)
                  ELSE IF ~sub.ok THEN [begun EXCEPT !.over = TRUE]
                  ELSE IF ~r.ok
                       THEN SoloFail(begun, n, r.err,
                                     Msg("Input resolution failed", <<id>> \o Text(r.err)))
                  ELSE SoloAttempts(ns, q, begun, n, r.v, 1, NoMsg, outs)

SoloAttempts(ns, q, st, n, input, k, err, outs) ==
  IF k > MaxAttemptsOf(n)
  THEN SoloFail(st, n, err, Msg("Failed", <<n.id>> \o Text(err)))
  ELSE IF outs = <<>> THEN st
  ELSE LET o == Head(outs)
           late == n.timeoutMs # 0 /\ o.durationMs > n.timeoutMs
           e == IF o.kind = "threw" THEN o.error
                ELSE Msg("Timeout exceeded",
                         <<ToString(o.durationMs), "ms", ">", ToString(n.timeoutMs), "ms">>)
           retry == Log("info",
                        Msg("Retrying", <<n.id, ToString(k), ToString(MaxAttemptsOf(n))>>
                                          \o Text(e)), n.id)
       IN IF o.kind = "returned" /\ ~late
          THEN SoloLoop(ns, q,
                 [st EXCEPT !.context = CtxPut(@, n.id, o.output),
                            !.nodeExecutions =
                               Append(@, SuccessRecord(n, o.durationMs, input, o.output)),
                            !.logs = Append(@, Log("success",
                                        Msg("Completed", <<n.id, ToString(o.durationMs), "ms">>),
                                        n.id)),
                            !.idx = @ + 1],
                 Tail(outs))
          ELSE SoloAttempts(ns, q,
                 IF k < MaxAttemptsOf(n) THEN [st EXCEPT !.logs = Append(@, retry)] ELSE st,
                 n, input, k + 1, e, Tail(outs))

Solo(ns, q, outs) ==
  LET t == topoSort(ns)
      st == [order |-> t.order, idx |-> 1, context |-> EmptyContext,
             logs |-> <<Log("info", Msg("Starting workflow", <<"wf">>), ""),
                        Log("info", Msg("Query", q), "")>>,
             nodeExecutions |-> <<>>, result |-> NoResult, over |-> FALSE]
  IN IF Len(t.cycles) > 0
     THEN [st EXCEPT !.result = Failure(Msg("Cycle detected", t.cycles)), !.over = TRUE]
     ELSE SoloLoop(ns, q, st, outs)

\* The two runs, as records of their locals.
RunOf(r) == IF running = r THEN Pack ELSE parked

\* The output a run's handler returned, within the timeout, for node id.
InTime(R, o) ==
  /\ o.kind = "returned"
  /\ LET n == NodeOf(R.nodes, o.nodeId)
     IN ~(n.timeoutMs # 0 /\ o.durationMs > n.timeoutMs)
OwnOutputs(R, id) ==
  {R.outcomes[j].output : j \in {i \in 1..Len(R.outcomes) :
                                   R.outcomes[i].nodeId = id /\ InTime(R, R.outcomes[i])}}

\* C11: two runs interleaved at their awaits are independent.  In each run
\* the context holds, under a node's id, an output that this run's own
\* handler call for that node returned; the log carries this run's query and
\* every record is of a node of this run's workflow with this run's own
\* input and output; and at every point where the run is suspended or over,
\* its context, logs, nodeExecutions and result are those of the same call
\* running alone with the same handler outcomes.
C11_RunsIndependent ==
  \A r \in {1, 2} :
    LET R == RunOf(r)
    IN Suspended(R.pc) =>
         /\ \A i \in 1..Len(R.context) :
              R.context[i].v \in OwnOutputs(R, R.context[i].k)
         /\ R.pc # "start" => R.logs[2] = Log("info", Msg("Query", R.query), "")
         /\ \A i \in 1..Len(R.nodeExecutions) :
              LET x == R.nodeExecutions[i]
              IN /\ HasNode(R.nodes, x.nodeId)
                 /\ x.status = "success" =>
                      /\ x.outputData \in OwnOutputs(R, x.nodeId)
                      /\ \E j \in 1..Len(R.calls) :
                           R.calls[j].nodeId = x.nodeId /\ R.calls[j].input = x.inputData
         /\ R.pc # "start" =>
              LET alone == Solo(R.nodes, R.query, R.outcomes)
              IN /\ R.context = alone.context
                 /\ R.logs = alone.logs
                 /\ R.nodeExecutions = alone.nodeExecutions
                 /\ R.result = alone.result
                 /\ (R.pc \in {"done", "rejected"}) <=> alone.over

\* both runs of the same workflow ended in success with different queries,
\* their handlers having returned different outputs for n1, the second run
\* having been resumed while the first was waiting
C11_Witness ==
  /\ RunOf(1).pc = "done" /\ RunOf(2).pc = "done"
  /\ RunOf(1).result.success /\ RunOf(2).result.success
  /\ RunOf(1).nodes = RunOf(2).nodes /\ RunOf(1).query # RunOf(2).query
  /\ CtxGet(RunOf(1).context, "n1") # CtxGet(RunOf(2).context, "n1")
  /\ Len(RunOf(1).sleeps) = 1
  /\ running = 1

\* ---------------------------------------------------------------- C12
\* A message without the measured durations it embeds ("Completed n in 12ms",
\* "Timeout exceeded: 12ms > 10ms", also inside "Retrying" and "Failed").
RECURSIVE MaskText(_)
MaskText(s) ==
  IF s = <<>> THEN <<>>
  ELSE IF Head(s) = "Timeout exceeded" /\ Len(s) >= 2
       THEN <<Head(s), "?">> \o MaskText(Tail(Tail(s)))
  ELSE <<Head(s)>> \o MaskText(Tail(s))
MaskMsg(m) ==
  IF m.kind = "Completed" THEN Msg(m.kind, <<m.detail[1]>>)
  ELSE IF m.kind = "Timeout exceeded" THEN Msg(m.kind, <<"?">> \o Tail(m.detail))
  ELSE Msg(m.kind, MaskText(m.detail))

\* What the claim compares: node outcomes, logged messages, the result.
NodeOutcomes(R) ==
  [i \in 1..Len(R.nodeExecutions) |->
     [nodeId |-> R.nodeExecutions[i].nodeId, status |-> R.nodeExecutions[i].status,
      error |-> MaskMsg(R.nodeExecutions[i].error)]]
LoggedMessages(R) ==
  [i \in 1..Len(R.logs) |->
     [level |-> R.logs[i].level, message |-> MaskMsg(R.logs[i].message),
      nodeId |-> R.logs[i].nodeId]]
SameReport(A, B) ==
  /\ NodeOutcomes(A) = NodeOutcomes(B)
  /\ LoggedMessages(A) = LoggedMessages(B)
  /\ A.result.success = B.result.success
  /\ MaskMsg(A.result.error) = MaskMsg(B.result.error)

\* The handlers behave identically on identical inputs: two calls for the
\* same node with the same input, in either run, settled the same way
\* (returned the same output, or threw the same error).
Settled(R) == {i \in 1..Len(R.calls) : i <= Len(R.outcomes)}
Behaviour(o) == [kind |-> o.kind, output |-> o.output, error |-> o.error]
SameBehaviour(A, B) ==
  \A i \in Settled(A), j \in Settled(B) :
    (A.calls[i].nodeId = B.calls[j].nodeId /\ A.calls[i].input = B.calls[j].input)
      => Behaviour(A.outcomes[i]) = Behaviour(B.outcomes[j])
IdenticalHandlers(A, B) ==
  SameBehaviour(A, A) /\ SameBehaviour(B, B) /\ SameBehaviour(A, B)

Over(R) == R.pc \in {"done", "rejected"}
SameRequest(A, B) == A.nodes = B.nodes /\ A.query = B.query

\* C12 as stated: two runs of the same workflow with the same query, with
\* handlers that behave identically on identical inputs, report the same
\* node outcomes (node id, status, error) and the same logged messages, up
\* to the durations.
C12_SameOutcomes ==
  LET A == RunOf(1)
      B == RunOf(2)
  IN (Over(A) /\ Over(B) /\ SameRequest(A, B) /\ IdenticalHandlers(A, B))
       => SameReport(A, B)

\* The k-th settled call of a run took longer than its node's timeoutMs.
Late(R, k) ==
  LET n == NodeOf(R.nodes, R.outcomes[k].nodeId)
  IN R.outcomes[k].kind = "returned" /\ n.timeoutMs # 0
     /\ R.outcomes[k].durationMs > n.timeoutMs
SameLateness(A, B) ==
  \A k \in 1..Len(A.outcomes) : k <= Len(B.outcomes) => (Late(A, k) <=> Late(B, k))

\* C12 as amended: the durations decide outcomes through the timeout check.
\* When, in addition, the k-th handler call of either run is on the same
\* side of its node's timeoutMs, the two runs report the same node outcomes
\* and the same logged messages, up to the durations.
C12_SameOutcomesSameLateness ==
  LET A == RunOf(1)
      B == RunOf(2)
  IN (Over(A) /\ Over(B) /\ SameRequest(A, B) /\ IdenticalHandlers(A, B)
      /\ SameLateness(A, B))
       => SameReport(A, B)

\* two runs of the same request, a late first attempt of n2 and a retry in
\* both, with different durations measured for n1
C12_Witness ==
  LET A == RunOf(1)
      B == RunOf(2)
  IN /\ A.pc = "done" /\ B.pc = "done" /\ SameRequest(A, B)
     /\ IdenticalHandlers(A, B) /\ SameLateness(A, B)
     /\ Len(A.outcomes) = 3 /\ Len(B.outcomes) = 3
     /\ Late(A, 2) /\ A.result.success
     /\ A.outcomes[1].durationMs # B.outcomes[1].durationMs

\* ---------------------------------------------------------------- C13
\* The ids of the order that are nodes of the workflow, in that order.
Runnable == SelectSeq(order, LAMBDA id : HasNode(nodes, id))
\* The node ids of the handler calls, consecutive repetitions taken once.
RECURSIVE Visits(_)
Visits(cs) ==
  IF cs = <<>> THEN <<>>
  ELSE IF Len(cs) >= 2 /\ cs[1].nodeId = cs[2].nodeId THEN Visits(Tail(cs))
  ELSE <<cs[1].nodeId>> \o Visits(Tail(cs))
IsPrefix(a, b) == Len(a) <= Len(b) /\ a = SubSeq(b, 1, Len(a))

\* C13: at most one handler call is in flight, and only while the run
\* awaits it; every call settles before the next is made (the k-th outcome
\* is that of the k-th call); the calls visit the nodes in the order topoSort
\* returned, each node's calls in one block, a node being called only after
\* the last call of its predecessor settled.
C13_OneAtATimeInOrder ==
  /\ Len(calls) = Len(outcomes) + (IF pc = "await" THEN 1 ELSE 0)
  /\ \A k \in 1..Len(outcomes) : outcomes[k].nodeId = calls[k].nodeId
  /\ pc # "start" => order = topoSort(nodes).order
  /\ IsPrefix(Visits(calls), Runnable)
  /\ \A k \in 2..Len(calls) :
       calls[k].nodeId # calls[k - 1].nodeId =>
         /\ outcomes[k - 1].kind = "returned"
         /\ ~FailedAttempt(outcomes[k - 1], NodeOf(nodes, calls[k - 1].nodeId))

\* the second node is called after a retried first node
C13_Witness ==
  /\ Len(calls) >= 3 /\ calls[1].nodeId = calls[2].nodeId
  /\ LastOf(calls).nodeId # calls[1].nodeId
  /\ pc = "await"

\* ---------------------------------------------------------------- C14
\* The member k of an object, the element i (from 0) of an array.
Member(v, k) == v.o[CHOOSE i \in 1..Len(v.o) : v.o[i].k = <<k>>].v
Element(v, i) == v.a[i + 1]

\* The outcomes of node id that returned within the node's timeout.
SuccessesOf(id) ==
  SelectSeq(outcomes, LAMBDA o : o.nodeId = id /\ o.kind = "returned"
                                  /\ ~FailedAttempt(o, NodeOf(nodes, id)))

\* What each template of the model must become, written out: up the output
\* that n1's handler returned in its successful attempt, q the query.
ExpectedInput(template, up, q) ==
  CASE template = QueryTemplate ->
         Obj(<<KV(<<"url">>, Str(<<"u">>)), KV(<<"q">>, Str(<<"all:">> \o q))>>)
    [] template = BodyTemplate -> Obj(<<KV(<<"xml">>, Member(up, "body"))>>)
    [] template = DeepTemplate ->
         Obj(<<KV(<<"v">>, Element(Member(Member(up, "body"), "list"), 1)),
               KV(<<"w">>, Arr(<<Member(up, "status"), Num(5)>>))>>)

HasRefs(template) == template \in {BodyTemplate, DeepTemplate, MissingTemplate}

\* C14: every handler call of a node gets the node's template in which each
\* reference object, nested in objects and arrays, is replaced by the value
\* at its path in the output that n1's handler returned in its successful
\* attempt (not one it returned too late), the other members and elements
\* kept in place and the scalars unchanged.
C14_InputIsResolvedTemplate ==
  \A j \in 1..Len(calls) :
    LET n == NodeOf(nodes, calls[j].nodeId)
        ups == SuccessesOf("n1")
    IN /\ HasRefs(n.input) => (Len(ups) = 1 /\ n.id # "n1")
       /\ calls[j].input =
            ExpectedInput(n.input, IF ups = <<>> THEN Null ELSE ups[1].output, query)

\* n2 was called with the references of the nested template resolved
C14_Witness ==
  \E j \in 1..Len(calls) :
    /\ NodeOf(nodes, calls[j].nodeId).input = DeepTemplate
    /\ calls[j].input =
         Obj(<<KV(<<"v">>, Num(20)), KV(<<"w">>, Arr(<<Num(200), Num(5)>>))>>)

\* ---------------------------------------------------------------- C15
\* C15: resolveRef returns exactly the value stored at the place its path
\* selects in the node's output, and throws a resolution error for a path to
\* a field that is missing and for an index that is negative or not below
\* the array's length.
C15_RefRoundTrip ==
  pc = "resolved" =>
    LET out == CtxGet(context, "n1")
    IN /\ \A p \in Places(out) : path = Path(p.t) => resolved = Done(p.v)
       /\ (\E t \in MissingFieldPaths(out) \cup BadIndexPaths(out) : path = Path(t)) =>
            /\ ~resolved.ok
            /\ resolved.err.kind \in RefErrorKinds

\* ---------------------------------------------------------------- C16
\* C16: in every step of a run the context keeps its keys and the value
\* under each of them; a step that changes it adds one entry, for the node
\* whose handler call just settled, and that call returned within the
\* node's timeout the output that the entry holds.
C16_ContextGrowsOnly ==
  [][/\ \A i \in 1..Len(context) :
          /\ CtxHas(context', context[i].k)
          /\ CtxGet(context', context[i].k) = context[i].v
     /\ context' # context =>
          /\ pc = "await" /\ ~CtxHas(context, CurId)
          /\ CtxKeys(context') = CtxKeys(context) \cup {CurId}
          /\ Len(outcomes') = Len(outcomes) + 1
          /\ LET o == LastOf(outcomes')
             IN /\ o.nodeId = CurId /\ o.kind = "returned"
                /\ ~(Cur.timeoutMs # 0 /\ o.durationMs > Cur.timeoutMs)
                /\ CtxGet(context', CurId) = o.output]_vars

\* the context has the outputs of two nodes, the first written after an
\* attempt that returned too late
C16_Witness ==
  /\ Len(context) = 2
  /\ Len(outcomes) >= 3
  /\ outcomes[1].kind = "returned"
  /\ FailedAttempt(outcomes[1], NodeOf(nodes, outcomes[1].nodeId))
  /\ context[1].v # outcomes[1].output

\* ---------------------------------------------------------------- C17
\* The loop has reached the node: a log entry carries its id.
Started(id) == \E i \in 1..Len(logs) : logs[i].nodeId = id
InRetryLoop(id) == pc \in {"try", "await", "sleep"} /\ CurId = id

\* C17: every record is of a node of the workflow and no node has two, however
\* many attempts were made.  While a node is being attempted and retried it
\* has no record; a success record comes with exactly one attempt that
\* returned in time, after which the loop went on; an error record is the
\* last record, of a run that has returned success = false; a node the loop
\* has not reached has no record.
C17_OneRecordPerNode ==
  /\ \A i \in 1..Len(nodeExecutions) : HasNode(nodes, nodeExecutions[i].nodeId)
  /\ \A i \in 1..Len(nodes) :
       LET id == nodes[i].id
       IN /\ Cardinality(RecordsOf(id)) <= 1
          /\ InRetryLoop(id) => RecordsOf(id) = {}
          /\ ~Started(id) => RecordsOf(id) = {}
          /\ HasRecord(id, "success") <=> Len(SuccessesOf(id)) = 1
          /\ Len(SuccessesOf(id)) <= 1
          /\ HasRecord(id, "success") =>
               (pc = "done" \/ pc = "rejected" \/ idx > Pos(order, id))
          /\ HasRecord(id, "error") =>
               /\ pc = "done" /\ RunFailed
               /\ LastOf(nodeExecutions).nodeId = id
               /\ \/ nodes[i].actionRef \notin ACTION_HANDLERS
                  \/ nodeExecutions[Len(nodeExecutions)].error.kind \in RefErrorKinds
                  \/ CallsOf(id) = (IF MaxAttemptsOf(nodes[i]) > 0
                                    THEN MaxAttemptsOf(nodes[i]) ELSE 0)

\* a node was called three times and has one record, the second of the run
C17_Witness ==
  \E i \in 1..Len(nodes) :
    /\ CallsOf(nodes[i].id) = 3
    /\ Cardinality(RecordsOf(nodes[i].id)) = 1
    /\ Len(nodeExecutions) = 2

\* ---------------------------------------------------------------- C18
\* The ids the sort knows: the declared ones and those only named in a dependsOn.
KnownIds(ns) == Declared(ns) \cup Undeclared(ns)
\* id is on a dependency cycle, or depends on a node that is.
OnCycle(ns, id) == id \in Closure(ns, DepsOf(ns, id))
Stuck(ns, id) == \E c \in Closure(ns, {id}) : OnCycle(ns, c)

C19_RouteClassifies ==
  pc = "responded" =>
    LET threw == request.kind \in {"garbage", "null"}
        missing == Falsy(request.workflowName) \/ Falsy(request.query)
        unknown == request.workflowName.s \notin WorkflowNames
    IN /\ response.status \in {200, 400, 404, 500}
       /\ threw => response.status = 500
       /\ (~threw /\ missing) => response.status = 400
       /\ (~threw /\ ~missing /\ unknown) => response.status = 404
       /\ (~threw /\ ~missing /\ ~unknown) =>
            IF result.returned
            THEN /\ response.status = 200
                 /\ response.body =
                      [result |-> result, logs |-> logs, nodeExecutions |-> nodeExecutions]
            ELSE response.status = 500

\* ---------------------------------------------------------------- C20
\* The delays waited before the retries of node id, in order.
DelaysOf(id) ==
  LET ss == SelectSeq(sleeps, LAMBDA w : w.nodeId = id)
  IN [j \in 1..Len(ss) |-> ss[j].ms]

\* C20: the delays before the successive retries of a node grow by a
\* constant factor greater than 1: each is longer than the one before, and
\* three in a row are in geometric progression.
C20_ExponentialBackoff ==
  \A i \in 1..Len(nodes) :
    LET ds == DelaysOf(nodes[i].id)
    IN /\ \A j \in 1..(Len(ds) - 1) : ds[j + 1] > ds[j]
       /\ \A j \in 1..(Len(ds) - 2) : ds[j + 1] * ds[j + 1] = ds[j] * ds[j + 2]

\* ---------------------------------------------------------------- C21
\* The number of characters of a string: a word counts its letters, the
\* character outside the Basic Multilingual Plane counts once.
Characters(a) == IF a = Astral THEN 1 ELSE Len(a)
RECURSIVE CharacterCount(_)
CharacterCount(s) ==
  IF s = <<>> THEN 0 ELSE Characters(Head(s)) + CharacterCount(Tail(s))

Evaluated(e) == pc = "evaluated" /\ jq.expr = e

\* keys and to_entries: on an object that is no array the keys, and the
\* {key, value} pairs, in the object's order; an error on everything else.
KeysAndEntries ==
  /\ Evaluated(<<"keys">>) =>
       IF jq.data.t = "obj"
       THEN /\ jq.out.ok /\ jq.out.v.t = "arr"
            /\ Len(jq.out.v.a) = Len(jq.data.o)
            /\ \A i \in 1..Len(jq.data.o) : jq.out.v.a[i] = Str(jq.data.o[i].k)
       ELSE ~jq.out.ok /\ jq.out.err.kind = "keys requires object input"
  /\ Evaluated(<<"to_entries">>) =>
       IF jq.data.t = "obj"
       THEN /\ jq.out.ok /\ jq.out.v.t = "arr"
            /\ Len(jq.out.v.a) = Len(jq.data.o)
            /\ \A i \in 1..Len(jq.data.o) :
                 jq.out.v.a[i] = Obj(<<KV(<<"key">>, Str(jq.data.o[i].k)),
                                      KV(<<"value">>, jq.data.o[i].v)>>)
       ELSE ~jq.out.ok /\ jq.out.err.kind = "to_entries requires object input"
\* length of what is no string: elements of an array, keys of an object, an
\* error on a number, a boolean, null and undefined.
LengthOfOthers ==
  (Evaluated(<<"length">>) /\ jq.data.t # "str") =>
    CASE jq.data.t = "arr" -> jq.out = Done(Num(Len(jq.data.a)))
      [] jq.data.t = "obj" -> jq.out = Done(Num(Len(jq.data.o)))
      [] OTHER -> ~jq.out.ok /\ jq.out.err.kind = "length requires array, object, or string"

\* C21: keys maps an object that is no array to the list of its keys in
\* order and to_entries to the list of {key, value} pairs in the same order,
\* both failing on arrays, null and scalars; length returns the element
\* count of an array, the key count of an object and the character count of
\* a string, and fails on every other input.
C21_BuiltIns ==
  /\ KeysAndEntries
  /\ LengthOfOthers
  /\ (Evaluated(<<"length">>) /\ jq.data.t = "str") =>
       jq.out = Done(Num(CharacterCount(jq.data.s)))

\* ---------------------------------------------------------------- C22
\* C22: in a dotted path, an index that is not below the length of the array
\* it is applied to gives null, and a field that is absent from the current
\* value is an error; a path to a place of the value gives what is stored
\* there (.a.b[0] on {a: {b: [10, 20]}} is 10, .a.b[5] is null, .a.c fails).
C22_IndexNullFieldFatal ==
  pc = "evaluated" =>
    /\ \A p \in Places(jq.data) : jq.expr = Dotted(p.t) => jq.out = Done(p.v)
    /\ (\E t \in BeyondPaths(jq.data) : jq.expr = Dotted(t)) => jq.out = Done(Null)
    /\ (\E t \in MissingFieldPaths(jq.data) : jq.expr = Dotted(t)) =>
         ~jq.out.ok /\ jq.out.err.kind = "field not found"
    /\ jq.data = Sample =>
         /\ jq.expr = Dotted(<<"a", ".", "b", "[", "0", "]">>) => jq.out = Done(Num(10))
         /\ jq.expr = Dotted(<<"a", ".", "b", "[", "5", "]">>) => jq.out = Done(Null)
         /\ jq.expr = Dotted(<<"a", ".", "c">>) => ~jq.out.ok

\* ---------------------------------------------------------------- C23
\* C23: whenever a handler has been invoked for a node, every node that its
\* dependsOn names has a success record, written before the call was made,
\* and the context holds under that node's id the output of the record.
C23_DependenciesFirst ==
  \A j \in 1..Len(calls) :
    LET n == NodeOf(nodes, calls[j].nodeId)
    IN \A d \in Range(n.dependsOn) \cap Declared(nodes) :
         /\ d # n.id
         /\ \E i \in RecordsOf(d) :
              /\ nodeExecutions[i].status = "success"
              /\ CtxHas(context, d)
              /\ CtxGet(context, d) = nodeExecutions[i].outputData
         /\ Pos(order, d) < Pos(order, n.id)
         /\ \E k \in 1..(j - 1) :
              /\ calls[k].nodeId = d /\ outcomes[k].kind = "returned"
              /\ outcomes[k].output = CtxGet(context, d)

\* the node declared first names the node declared second, and is being called
C23_Witness ==
  /\ Len(nodes) = 2 /\ nodes[1].dependsOn = <<nodes[2].id>>
  /\ pc = "await" /\ Len(calls) = 2
  /\ calls[1].nodeId = nodes[2].id /\ calls[2].nodeId = nodes[1].id

\* ---------------------------------------------------------------- C24
\* The message ends with the error's text (or is the error itself).
Describes(message, err) ==
  LET t == Text(message)
      e == Text(err)
  IN Len(e) <= Len(t) /\ SubSeq(t, Len(t) - Len(e) + 1, Len(t)) = e

\* C24: the log of every run that returned success = false contains an
\* error-level entry describing the condition the run failed with.
C24_FatalIsLogged ==
  RunFailed =>
    \E i \in 1..Len(logs) :
      logs[i].level = "error" /\ Describes(logs[i].message, result.error)

\* ---------------------------------------------------------------- C25
\* The handler calls a run may make at most: max(maxAttempts, 1) per node.
RECURSIVE CallBudget(_)
CallBudget(ns) ==
  IF ns = <<>> THEN 0
  ELSE (IF MaxAttemptsOf(Head(ns)) > 1 THEN MaxAttemptsOf(Head(ns)) ELSE 1)
       + CallBudget(Tail(ns))

\* A bound on the steps the run has still to take: per node of the order at
\* most one step into the retry loop, three per attempt (call, settling,
\* backoff) and one out of it.
StepsPerNode == 3 * MaxAttempts + 3
StepsInNode ==
  LET left == MaxAttemptsOf(Cur) - attempt + 1
  IN CASE pc = "try" -> IF left > 0 THEN 3 * left + 1 ELSE 1
       [] pc = "await" -> 3 * left
       [] pc = "sleep" -> 3 * left - 1
StepsLeft ==
  CASE pc \in {"done", "rejected"} -> 0
    [] pc = "start" -> (Cardinality(KnownIds(nodes)) + 1) * StepsPerNode + 2
    [] pc = "loop" -> (Len(order) + 1 - idx) * StepsPerNode + 1
    [] OTHER -> (Len(order) - idx) * StepsPerNode + 1 + StepsInNode

\* The promise executeWorkflow returned has settled / was fulfilled.
Ended == pc \in {"done", "rejected"}
Fulfilled == pc = "done" /\ result.returned

\* C25: every run ends after finitely many steps (each step, a handler call
\* settling included, lowers a bound on the steps that remain), having made
\* no more handler calls than the sum over its nodes of max(maxAttempts, 1);
\* it ends by returning an ExecutionResult, after which it takes no step.
C25_ReturnsOnceBounded ==
  /\ [](Len(calls) <= CallBudget(nodes))
  /\ [](StepsLeft >= 0)
  /\ [][StepsLeft' < StepsLeft]_vars
  /\ [](Ended => Fulfilled)

\* ---------------------------------------------------------------- C26
\* C26: while a handler call is awaited, the only step of the run is the
\* settling of that call, whether or not the node declares a timeoutMs: no
\* attempt is failed, no retry logged, no node begun and no result returned
\* before it, and without it the run stays as it is.
C26_NoPreemption ==
  [][pc = "await" =>
       /\ Len(outcomes') = Len(outcomes) + 1
       /\ LastOf(outcomes').nodeId = CurId
       /\ SubSeq(outcomes', 1, Len(outcomes)) = outcomes
       /\ calls' = calls
       /\ ~result.returned /\ RecordsOf(CurId) = {}
       /\ LastOf(calls) = [nodeId |-> CurId, input |-> resolvedInput, attempt |-> attempt]]_vars

\* the second attempt of a node with a timeout is awaited
C26_Witness == pc = "await" /\ Cur.timeoutMs # 0 /\ attempt = 2

\* ---------------------------------------------------------------- C27
SleepsOf(id) == Cardinality({i \in 1..Len(sleeps) : sleeps[i].nodeId = id})

Throws(kind) == ~resolved.ok /\ resolved.err.kind = kind
PathIn(tokens) == \E t \in tokens : path = Path(t)

\* The failures of resolveRef that do not depend on a field being absent or
\* on the index being a number.
RefFailuresOfShape ==
  pc = "resolved" =>
    LET out == CtxGet(context, "n1")
    IN /\ path \in MalformedPaths => Throws("Unsupported $ref path")
       /\ path \in UnknownNodePaths => ~resolved.ok
       /\ PathIn(BadIndexPaths(out)) => Throws("$ref index out of range")
       /\ PathIn(NonArrayIndexPaths(out)) => Throws("$ref index out of range")

\* C28: resolveRef fails on a path that is too short or malformed, on a node
\* id that the context lacks, on a field absent from the current value, on an
\* index out of range, on an index applied to what is no array, and on a
\* bracket index that is no number; none of them yields a value.
C28_RefFailures ==
  /\ RefFailuresOfShape
  /\ pc = "resolved" =>
       LET out == CtxGet(context, "n1")
       IN /\ PathIn(MissingFieldPaths(out)) => Throws("$ref field not found")
          /\ PathIn(NonNumericIndexPaths(out)) => ~resolved.ok

\* ---------------------------------------------------------------- C29
\* The template with the query written in place of every placeholder, in
\* each string and each key, whatever the query is.
RECURSIVE WithQuery(_, _)
WithQuery(v, q) ==
  LET in(s) == Flatten([i \in 1..Len(s) |-> IF s[i] = QueryToken THEN q ELSE <<s[i]>>])
  IN CASE v.t = "str" -> Str(in(v.s))
       [] v.t = "arr" -> Arr([i \in 1..Len(v.a) |-> WithQuery(v.a[i], q)])
       [] v.t = "obj" -> Obj([i \in 1..Len(v.o) |-> KV(in(v.o[i].k), WithQuery(v.o[i].v, q))])
       [] OTHER -> v
Prepared == pc \in {"substituted", "resolved", "failed"}

\* What holds of the order of the two phases, whatever the text put in place
\* of the placeholder: resolution works on the substituted template, and what
\* it brings in is left as the context holds it.
ResolvedAfterSubstitution ==
  /\ pc \in {"resolved", "failed"} =>
       LET r == resolveInput(substituted.v, context)
       IN r.ok = (pc = "resolved") /\ (r.ok => resolvedInput = r.v)
  /\ pc = "resolved" /\ Template = BodyTemplate =>
       resolvedInput = Obj(<<KV(<<"xml">>, Member(CtxGet(context, "n1"), "body"))>>)

\* C29: once the template is substituted, every placeholder in it (in a
\* value, in a key, in the path of a reference) has become the query string;
\* references are resolved in the substituted template, and what a reference
\* brings in is not substituted, even if it holds the placeholder's text.
C29_SubstituteThenResolve ==
  /\ Prepared => substituted.v = WithQuery(Template, query)
  /\ ResolvedAfterSubstitution

\* ---------------------------------------------------------------- C30
DeclaredAt(id) == CHOOSE i \in 1..Len(nodes) : nodes[i].id = id
ReadyAtFirst(id) == HasNode(nodes, id) /\ NodeOf(nodes, id).dependsOn = <<>>
\* The node whose popping made id ready: the dependency ordered last.
Releaser(id) ==
  LET deps == NodeOf(nodes, id).dependsOn
  IN CHOOSE d \in Range(deps) : \A e \in Range(deps) : Pos(order, e) <= Pos(order, d)
Released(id) == HasNode(nodes, id) /\ ~ReadyAtFirst(id) /\ Contains(order, id)

\* Ready from the start in declaration order; those made ready later behind
\* everything queued before, and among those a node releases, in declaration order.
FifoInDeclarationOrder ==
  /\ \A a, b \in Range(order) :
       ReadyAtFirst(a) /\ ReadyAtFirst(b) /\ DeclaredAt(a) < DeclaredAt(b)
         => Pos(order, a) < Pos(order, b)
  /\ \A a, b \in Range(order) :
       ReadyAtFirst(a) /\ Released(b) => Pos(order, a) < Pos(order, b)
  /\ \A a, b \in Range(order) :
       /\ Released(a) /\ Released(b)
       /\ \/ Pos(order, Releaser(a)) < Pos(order, Releaser(b))
          \/ Releaser(a) = Releaser(b) /\ DeclaredAt(a) < DeclaredAt(b)
       => Pos(order, a) < Pos(order, b)

\* C30: topoSort breaks ties first in, first out, in declaration order: the
\* nodes ready at the start are ordered as they are declared, the nodes that
\* become ready when a node is popped follow everything queued before them,
\* in declaration order, and the order is a function of the node list.
C30_FifoDeclarationOrder ==
  pc = "sorted" => FifoInDeclarationOrder /\ order = topoSort(nodes).order

\* ---------------------------------------------------------------- C31
\* The ids whose in-degree reaches zero, whatever the order of the pops: an
\* id no node declares starts at zero; a node starts at the number of its
\* dependsOn entries and loses one for each id it names that is popped.
RECURSIVE ReachZero(_, _)
ReachZero(ns, s) ==
  LET next == s \cup {id \in KnownIds(ns) :
                        \A i \in 1..Len(ns) :
                          ns[i].id = id =>
                            /\ Cardinality(Range(ns[i].dependsOn)) = Len(ns[i].dependsOn)
                            /\ Range(ns[i].dependsOn) \subseteq s}
  IN IF next = s THEN s ELSE ReachZero(ns, next)

Then(r, stage) == IF r.ok THEN jqSingle(r.v, stage) ELSE r

\* C32: a pipe is evaluated from left to right, each stage by jqSingle on
\* the result of the stage before it; the first stage that fails ends the
\* evaluation with its error and no later stage is applied.
C32_PipeComposes ==
  pc = "evaluated" =>
    /\ \A a, b \in JqStageExprs :
         jq.expr = Piped(a, b) => jq.out = Then(jqSingle(jq.data, a), b)
    /\ \A a, b, c \in JqStageExprs :
         jq.expr = Piped(Piped(a, b), c) =>
           jq.out = Then(Then(jqSingle(jq.data, a), b), c)

\* keys | .[0] | length of {a: {b: [10, 20]}} is 1
C32_Witness ==
  /\ pc = "evaluated" /\ jq.data = Sample
  /\ jq.expr = Piped(Piped(<<"keys">>, Dotted(<<"[", "0", "]">>)), <<"length">>)
  /\ jq.out = Done(Num(1))

\* ---------------------------------------------------------------- C33
\* C33: in every state of a run nodeExecutions is a sequence of success
\* records followed by at most one error record, which is then its last
\* element and the error the run returned; a returned result carries an
\* error exactly when its success is false.
C33_RecordsShape ==
  /\ \A i \in 1..Len(nodeExecutions) :
       /\ nodeExecutions[i].status \in {"success", "error"}
       /\ nodeExecutions[i].status = "error" =>
            /\ i = Len(nodeExecutions)
            /\ result = Failure(nodeExecutions[i].error)
  /\ result.hasError = (result.returned /\ ~result.success)
  /\ result.success => result.returned

\* a failed run returned with a success record and, behind it, an error record
C33_Witness ==
  /\ pc = "done" /\ Len(nodeExecutions) = 2
  /\ nodeExecutions[1].status = "success" /\ nodeExecutions[2].status = "error"
  /\ result.hasError /\ ~result.success

\* ---------------------------------------------------------------- C34
NoAttempts(n) == n.retry.present /\ n.retry.maxAttempts <= 0
\* The loop came to node n with a registered handler and an input that
\* could be substituted and resolved.
CameToAttempts(n) ==
  /\ n.actionRef \in ACTION_HANDLERS
  /\ \E j \in 1..Len(logs) : logs[j].nodeId = n.id /\ logs[j].level = "running"
  /\ LET sub == substituteQuery(n.input, query)
     IN sub.ok /\ resolveInput(sub.v, context).ok

\* C34: the handler of a node whose retry policy has maxAttempts <= 0 is
\* never invoked; once the loop comes to its attempts the run ends with
\* success = false, its one record is an error record, the last one, and the
\* error of the record and of the result is the empty string.
C34_NoAttemptsFails ==
  \A i \in 1..Len(nodes) :
    NoAttempts(nodes[i]) =>
      LET n == nodes[i]
      IN /\ CallsOf(n.id) = 0
         /\ \A j \in 1..Len(sleeps) : sleeps[j].nodeId # n.id
         /\ RetryLogsOf(n.id) = 0
         /\ (pc = "try" /\ CurId = n.id) => attempt = 1 /\ lastError = NoMsg
         /\ (pc = "done" /\ CameToAttempts(n)) =>
              /\ result = Failure(NoMsg)
              /\ RecordsOf(n.id) = {Len(nodeExecutions)}
              /\ LastOf(nodeExecutions) = ErrorRecord(n, NoMsg)
              /\ LastOf(logs) = Log("error", Msg("Failed", <<n.id>> \o Text(NoMsg)), n.id)

\* a run ended at a node with maxAttempts below 1 after another node's handler ran
C34_Witness ==
  /\ pc = "done" /\ calls # <<>>
  /\ \E i \in 1..Len(nodes) :
       /\ NoAttempts(nodes[i]) /\ CameToAttempts(nodes[i])
       /\ nodes[i].retry.maxAttempts < 0
       /\ result = Failure(NoMsg)

\* ---------------------------------------------------------------- C35
\* A dependsOn list with each id kept where it is first listed.
RECURSIVE ListedOnce(_)
ListedOnce(deps) ==
  IF deps = <<>> THEN <<>>
  ELSE LET front == ListedOnce(SubSeq(deps, 1, Len(deps) - 1))
           last == deps[Len(deps)]
       IN IF Contains(front, last) THEN front ELSE Append(front, last)
WithDepsListedOnce(ns) ==
  [i \in 1..Len(ns) |-> [ns[i] EXCEPT !.dependsOn = ListedOnce(@)]]

\* C35: in a node list without a cycle, a node that lists a dependency more
\* than once is ordered as if it listed it once, and the cycle set is empty.
C35_RepeatedDepsIgnored ==
  (pc = "sorted" /\ ~HasCycle(nodes)) =>
    /\ order = topoSort(WithDepsListedOnce(nodes)).order
    /\ cycles = <<>>

\* ---------------------------------------------------------------- C36
Attempting == {"try", "await", "sleep"}
RunningLogsOf(id) ==
  Cardinality({i \in 1..Len(logs) : logs[i].nodeId = id /\ logs[i].level = "running"})

\* C36: the input of a node is prepared once, in the step that leads to its
\* first attempt; each call of its handler gets that resolved input; a step
\* from one attempt towards the next leaves context, nodeExecutions and the
\* resolved input as they are and adds to the log at most one retry entry of
\* the node.
C36_InputResolvedOnce ==
  [][/\ resolvedInput' # resolvedInput => pc = "loop" /\ pc' = "try" /\ attempt' = 1
     /\ \A i \in 1..Len(nodes) : RunningLogsOf(nodes[i].id)' <= 1
     /\ calls' # calls =>
          /\ LastOf(calls').input = resolvedInput
          /\ \A j \in 1..Len(calls) :
               calls[j].nodeId = LastOf(calls').nodeId =>
                 /\ calls[j].input = LastOf(calls').input
                 /\ calls[j].attempt < LastOf(calls').attempt
     /\ (pc \in Attempting /\ pc' \in Attempting) =>
          /\ context' = context /\ nodeExecutions' = nodeExecutions
          /\ resolvedInput' = resolvedInput /\ idx' = idx
          /\ \/ logs' = logs
             \/ /\ Len(logs') = Len(logs) + 1 /\ SubSeq(logs', 1, Len(logs)) = logs
                /\ LastOf(logs').message.kind = "Retrying"
                /\ LastOf(logs').nodeId = CurId]_vars

\* the handler of a node whose input holds references was called three times
C36_Witness ==
  \E i \in 1..Len(nodes) :
    /\ HasRefs(nodes[i].input) /\ CallsOf(nodes[i].id) = 3
    /\ pc = "done" /\ result.success

\* C38: the registry is consulted when the loop comes to a node, not before:
\* the run never goes past a node whose actionRef is not registered, and when
\* it has ended at that node the result is a failure, the node has its error
\* record, and every node before it in the order was called and has kept its
\* success record.
Unregistered(n) == n.actionRef \notin ACTION_HANDLERS
NodeEntries(id) == {a \in 1..Len(logs) : logs[a].nodeId = id}
TerminalEntries(id) == {a \in NodeEntries(id) : logs[a].level \in {"success", "error"}}
IsCompletion(e) ==
  e.nodeId = "" /\ e.level = "success" /\ e.message = Msg("Workflow completed", <<>>)
C37_LogOrdering ==
  pc # "start" =>
    /\ Len(logs) >= 2
    /\ logs[1] = Log("info", Msg("Starting workflow", <<"wf">>), "")
    /\ logs[2] = Log("info", Msg("Query", query), "")
    /\ \A a \in 3..Len(logs) :
         logs[a].nodeId = "" => a = Len(logs) /\ IsCompletion(logs[a])
    /\ \A a, b \in 3..Len(logs) :
         (a < b /\ logs[a].nodeId # "" /\ logs[b].nodeId # "") =>
           /\ Contains(order, logs[a].nodeId) /\ Contains(order, logs[b].nodeId)
           /\ Pos(order, logs[a].nodeId) <= Pos(order, logs[b].nodeId)
    /\ \A k \in 1..Len(order) :
         LET id == order[k]
             first == CHOOSE a \in NodeEntries(id) : \A b \in NodeEntries(id) : a <= b
         IN RunningLogsOf(id) >= 1 =>
              /\ RunningLogsOf(id) = 1
              /\ logs[first].level = "running"
              /\ Cardinality(TerminalEntries(id)) <= 1
              /\ \A a \in TerminalEntries(id) : \A b \in NodeEntries(id) : b <= a
              /\ \A a \in NodeEntries(id) \ (TerminalEntries(id) \cup {first}) :
                   logs[a].level = "info" /\ logs[a].message.kind = "Retrying"
              /\ (k < idx \/ pc = "done") => Cardinality(TerminalEntries(id)) = 1
    /\ \A k \in 1..Len(order) : CallsOf(order[k]) >= 1 => RunningLogsOf(order[k]) = 1
    /\ (\E a \in 1..Len(logs) : IsCompletion(logs[a])) <=>
         (result.returned /\ result.success)

\* a run that succeeded after a node was retried twice and another node ran
C37_Witness ==
  /\ pc = "done" /\ result.success /\ IsCompletion(LastOf(logs))
  /\ \E k \in 1..Len(order) :
       /\ RetryLogsOf(order[k]) = 2 /\ Cardinality(TerminalEntries(order[k])) = 1
  /\ \E k \in 1..Len(order) : RetryLogsOf(order[k]) = 0 /\ RunningLogsOf(order[k]) = 1

\* C40: an index that is past the end of its array, or is applied to a value
\* that is no array, ends its stage with null whatever tokens follow it in
\* the stage: .a[5].missing of a value with a field a is null, and so is
\* .a.b[5].c where a.b is an array of two.  The stage after a pipe is applied
\* to that null: when its first token names a field, the evaluation fails
\* with that field reported as not found.
IsPath(expr) == expr # <<>> /\ Head(expr) = "." /\ ~Contains(expr, Pipe)
TokensOf(expr) == SelectSeq(Split(Tail(expr), "."), LAMBDA t : t # <<>>)
PrefixOf(toks, k) == Dotted(Join(SubSeq(toks, 1, k), "."))
HeadOf(tok) ==
  IF IndexOf(tok, "[") = 0 THEN tok ELSE SubSeq(tok, 1, IndexOf(tok, "[") - 1)
C40_IndexEndsStage ==
  pc = "evaluated" =>
    /\ IsPath(jq.expr) =>
         \A k \in 1..Len(TokensOf(jq.expr)) :
           LET before == jqSingle(jq.data, PrefixOf(TokensOf(jq.expr), k - 1))
               at == JqToken(before.v, TokensOf(jq.expr)[k])
           IN (before.ok /\ at.ok /\ at.stop) => jq.out = Done(Null)
    /\ (jq.expr = Dotted(<<"a", "[", "5", "]", ".", "missing">>)
          /\ IsObjectLike(jq.data) /\ HasKey(jq.data, <<"a">>)) =>
         jq.out = Done(Null)
    /\ \A a, b \in JqStageExprs :
         (/\ jq.expr = Piped(a, b) /\ IsPath(a) /\ IsPath(b)
          /\ jqSingle(jq.data, a) = Done(Null)
          /\ TokensOf(b) # <<>> /\ HeadOf(TokensOf(b)[1]) # <<>>) =>
           jq.out = Fail(Msg("field not found", HeadOf(TokensOf(b)[1])))
    /\ (jq.expr = Piped(Dotted(<<"a", "[", "5", "]">>), Dotted(<<"missing">>))
          /\ IsObjectLike(jq.data) /\ HasKey(jq.data, <<"a">>)) =>
         jq.out = Fail(Msg("field not found", <<"missing">>))

\* .a.b[5].c of {a: {b: [10, 20]}} is null: the index is past the end and c
\* is never looked up
C40_Witness ==
  /\ pc = "evaluated" /\ jq.data = Sample
  /\ jq.expr = Dotted(<<"a", ".", "b", "[", "5", "]", ".", "c">>)
  /\ jq.out = Done(Null)

\* ---------------------------------------------------------------- WorkflowRunner
\* The component of src/components/HowItWorks.tsx: its state hooks, its
\* event handlers and the asynchronous steps of runWorkflow.  A step of
\* runWorkflow between two awaits is one action; the handlers of the
\* selectors run between them.
workflowKeys == <<"arxiv_search", "wiki_summary", "book_search">>
PRESET_QUERIES ==
  [arxiv_search |-> <<"transformer", "reinforcement learning", "LLM agents">>,
   wiki_summary |-> <<"generative AI", "neural networks", "Alan Turing">>,
   book_search |-> <<"dune", "artificial intelligence", "Isaac Asimov">>]
\* WORKFLOWS[key].nodes.map((n) => n.id)
WorkflowNodeIds ==
  [arxiv_search |-> <<"fetch_arxiv", "parse_xml">>,
   wiki_summary |-> <<"search_wiki", "extract_title", "fetch_extract", "extract_content">>,
   book_search |-> <<"search_books", "extract_books">>]
CustomQueries == {"", "q"}

\* The values of the result hook: null, what /api/execute answered for a
\* workflow (of names the workflow of the request), or the catch block's.
NoUiResult == [kind |-> "null", of |-> "", completed |-> <<>>, errorNode |-> ""]
CaughtResult(w) == [kind |-> "caught", of |-> w, completed |-> <<>>, errorNode |-> ""]
\* The answers to a request for workflow w: the records of the nodes that
\* succeeded, in order, and of the node that failed, if one did.
ResponsesOf(w) ==
  LET ids == WorkflowNodeIds[w]
  IN {[kind |-> "data", of |-> w, completed |-> SubSeq(ids, 1, j), errorNode |-> ""]
        : j \in {0, Len(ids)}}
     \cup {[kind |-> "data", of |-> w, completed |-> SubSeq(ids, 1, j - 1),
            errorNode |-> ids[j]] : j \in 1..Len(ids)}
Responses == UNION {ResponsesOf(w) : w \in Range(workflowKeys)}

Idle == [at |-> "idle", workflow |-> "", query |-> "", i |-> 0]
QueryValue == IF ui.isCustom THEN ui.customQuery ELSE ui.selectedQuery

besideUi == <<nodes, query, pc, order, cycles, idx, context, logs, nodeExecutions,
              resolvedInput, attempt, lastError, result, calls, outcomes, sleeps,
              parked, running, path, resolved, request, response, jq, substituted>>

\* lines 143-155: the initial values of the state hooks
InitUi ==
  /\ ui = [mounted |-> TRUE,
           selectedWorkflow |-> workflowKeys[1],
           selectedQuery |-> PRESET_QUERIES[workflowKeys[1]][1],
           customQuery |-> "", isCustom |-> FALSE, isRunning |-> FALSE,
           result |-> NoUiResult, activeNodeId |-> "", completedNodeIds |-> <<>>,
           errorNodeId |-> "", run |-> Idle]
  /\ pc = "ui"
  /\ nodes = <<>> /\ query = <<>>
  /\ Fresh /\ Alone /\ NoRef /\ Direct /\ NoEval /\ Unprepared

\* lines 161-172; the selector is enabled at all times
handleWorkflowChange(key) ==
  /\ ui' = [ui EXCEPT !.selectedWorkflow = key, !.isCustom = FALSE,
                      !.selectedQuery = PRESET_QUERIES[key][1],
                      !.result = NoUiResult, !.activeNodeId = "",
                      !.completedNodeIds = <<>>, !.errorNodeId = ""]
  /\ UNCHANGED besideUi

\* lines 174-185; the options are the presets of the selected workflow and
\* "__custom__"
handleQueryChange(value) ==
  /\ value \in Range(PRESET_QUERIES[ui.selectedWorkflow]) \cup {"__custom__"}
  /\ ui' = IF value = "__custom__"
           THEN [ui EXCEPT !.isCustom = TRUE, !.selectedQuery = ""]
           ELSE [ui EXCEPT !.isCustom = FALSE, !.selectedQuery = value]
  /\ UNCHANGED besideUi

\* the text input, rendered when isCustom
setCustomQuery(value) ==
  /\ ui.isCustom
  /\ ui' = [ui EXCEPT !.customQuery = value]
  /\ UNCHANGED besideUi

\* lines 187-199: the click on the button (disabled={isRunning || !queryValue})
\* up to the first await; the closure holds the workflow and the query of
\* the render in which it was made.
runWorkflow ==
  /\ ~ui.isRunning /\ QueryValue # ""
  /\ ui' = [ui EXCEPT !.isRunning = TRUE, !.result = NoUiResult,
                      !.completedNodeIds = <<>>, !.errorNodeId = "",
                      !.activeNodeId = WorkflowNodeIds[ui.selectedWorkflow][1],
                      !.run = [at |-> "animating", workflow |-> ui.selectedWorkflow,
                               query |-> QueryValue, i |-> 1]]
  /\ UNCHANGED besideUi

\* lines 196-211: a timer of the animation fires; the next node becomes the
\* active one, or the loop is over and the request is sent
AnimationTimer ==
  /\ ui.run.at = "animating"
  /\ ui' = IF ui.run.i < Len(WorkflowNodeIds[ui.run.workflow])
           THEN [ui EXCEPT !.activeNodeId = WorkflowNodeIds[ui.run.workflow][ui.run.i + 1],
                           !.run.i = ui.run.i + 1]
           ELSE [ui EXCEPT !.run.at = "fetching"]
  /\ UNCHANGED besideUi

\* lines 212-224, 234-236: the response arrived and was parsed
FetchResolves(data) ==
  /\ ui.run.at = "fetching" /\ data \in ResponsesOf(ui.run.workflow)
  /\ ui' = [ui EXCEPT !.result = data, !.completedNodeIds = data.completed,
                      !.errorNodeId = data.errorNode, !.activeNodeId = "",
                      !.isRunning = FALSE, !.run = Idle]
  /\ UNCHANGED besideUi

\* lines 225-236: fetch or resp.json() threw
FetchFails ==
  /\ ui.run.at = "fetching"
  /\ ui' = [ui EXCEPT !.result = CaughtResult(ui.run.workflow), !.activeNodeId = "",
                      !.isRunning = FALSE, !.run = Idle]
  /\ UNCHANGED besideUi

NextUi ==
  \/ \E key \in Range(workflowKeys) : handleWorkflowChange(key)
  \/ \E value \in UNION {Range(PRESET_QUERIES[w]) : w \in Range(workflowKeys)}
                    \cup {"__custom__"} : handleQueryChange(value)
  \/ \E value \in CustomQueries : setCustomQuery(value)
  \/ runWorkflow
  \/ AnimationTimer
  \/ \E data \in Responses : FetchResolves(data)
  \/ FetchFails

SpecUi == InitUi /\ [][NextUi]_vars

\* C39: what the component shows belongs to the selected workflow: a result
\* that is shown was fetched for the selected workflow, the completed node
\* ids and the error node id given to the DAG are ids of its nodes; and no
\* run is in flight exactly when isRunning is false.
C39_ResultOfSelectedWorkflow ==
  ui.mounted =>
    /\ ui.result.kind # "null" => ui.result.of = ui.selectedWorkflow
    /\ Range(ui.completedNodeIds) \subseteq Range(WorkflowNodeIds[ui.selectedWorkflow])
    /\ ui.errorNodeId # "" =>
         ui.errorNodeId \in Range(WorkflowNodeIds[ui.selectedWorkflow])
    /\ ui.isRunning <=> ui.run.at # "idle"

====
